---- MODULE Spec2Model ----
(***************************************************************************)
(* State-machine model of the CFE scraper: the Collection Orchestrator of  *)
(* src/src/auth.py (collect_cfe_from_links, process_and_save_current_page) *)
(* with its deduplication key (_canonicalize_url) and its files on disk,   *)
(* the job runner of src/src/main.py (run, build_and_apply_overrides) with *)
(* the configuration module src/src/config.py and the HTTP handler of      *)
(* src/app.py, and the login step login_and_continue.                      *)
(*                                                                         *)
(* Text is a sequence of one-character strings, so that lower-casing,      *)
(* stripping and substring search are computed and not assumed.            *)
(***************************************************************************)
EXTENDS Integers, Sequences, FiniteSets, TLC

VARIABLES
    \* ---- files in {output_root}/{process}/{identifier}/ ----
    csv,               \* result.csv: the rows appended so far, in order
    apertura,          \* the Final Report: [exists, columns, rows]
    result_xlsx,       \* result.xlsx: the rows of the intermediate spreadsheet
    \* ---- locals of collect_cfe_from_links ----
    pc,                \* position of the orchestrator
    max_pages,         \* the max_pages argument
    processed,         \* the Processed Set: canonical URLs
    page_count,
    new_on_page,
    download_counter,
    result_path,       \* what collect returned: "apertura", "timestamped", "csv"
    \* ---- locals of process_and_save_current_page ----
    urls,              \* number of candidate URLs of the page still to visit
    tried,             \* candidate URLs of the page already visited
    fallback_elements, \* number of fallback elements still to click
    new_rows,
    \* ---- history, read only by the properties ----
    runs,              \* number of runs of collect started so far
    csv_at_start,      \* Len(csv) when the current run started
    \* ---- the process: .env file, os.environ, the config module ----
    dotenv,            \* the .env file: [kind, vals]
    environ,           \* os.environ
    config,            \* globals of src.config as last (re)loaded
    \* ---- one job of main.run ----
    args,              \* cli_args of the job, and how it was submitted
    rpc,               \* position of run
    result,            \* the dict run returned
    browsers,          \* browser sessions launched by the job
    logins,            \* login attempts of the job
    login_flow,        \* the authentication function the job called
    login_outcome,     \* how that call ended
    filter_submits,    \* calls of fill_cfe_and_consult by the job
    collections,       \* calls of collect_cfe_from_links by the job
    collect_max_pages, \* the max_pages argument of that call
    out_path,          \* what collect_cfe_from_links returned, if it did
    jobs,              \* number of jobs submitted so far
    \* ---- the HTTP boundary ----
    environ_at_start,  \* os.environ when the process started
    form,              \* the form of the latest POST /run
    response,          \* the answer to it
    \* ---- one call of login_and_continue ----
    lpc,               \* position of login_and_continue
    target,            \* where the login inputs were found
    dom,               \* the page after the form was submitted
    inner_text_raises, \* whether the inner_text() accessor throws
    still_has_input,
    err_detected,
    raised,            \* the exception login_and_continue ended with
    final_page,        \* the page login_and_continue returned
    \* ---- what a job writes to the log and the console ----
    credentials,       \* identifier and secret of the job, as texts
    console,           \* the values written so far, one per line
    lgpc,              \* how far the job has logged
    \* ---- one call of _extract_fields_from_page ----
    detail_page,       \* what each selector finds on the page
    data,              \* the dict returned
    xpc,
    \* ---- one call of _sanitize_fecha_emision ----
    fecha_value,       \* the argument
    fecha_result,      \* the value returned
    fpc,
    \* ---- one call of click_next_only ----
    next_controls,     \* what each candidate selector finds and how it clicks
    sel_q,             \* index of the candidate the loop is at
    attempts,          \* the candidates looked up so far, in order
    dispatched,        \* the candidates whose click was dispatched
    next_clicked,      \* the local `clicked`, which is returned
    npc,
    \* ---- process_and_save_current_page, candidate by candidate ----
    pg_urls,           \* the candidate URLs of the page, in order
    pg_idx,            \* index of the candidate the loop is at
    pg_opened,         \* how each candidate visited so far was dealt with
    pg_processed,      \* the Processed Set
    pg_seed,           \* the Processed Set as the run loaded it from disk
    pg_csv,            \* the rows appended to result.csv
    pg_main,           \* what the main page handle displays
    pg_new_rows,
    pg_fallback,       \* number of fallback elements still to click
    ppc,
    \* ---- one call of fill_cfe_and_consult ----
    sq_dates,          \* which of date_from and date_to the call was given
    sq_filled,         \* the filter fields that were set
    sq_clicks,         \* the attempts to click Consultar so far
    sq_final,          \* the page the call returned
    sqpc,
    \* ---- the spreadsheets written from result.csv ----
    rp_csv,            \* the rows of result.csv when the run writes its reports
    rp_result_xlsx,    \* the rows of the intermediate result.xlsx
    rp_apertura,       \* the rows of the Final Report
    rppc,
    \* ---- one call of export_xls_and_save ----
    ex_selector,       \* the selector that found the export control
    ex_preferred,      \* how the page.expect_download attempt ended
    ex_fg,             \* position of the foreground
    ex_waiter,         \* position of the thread running _wait_for_download
    ex_click,          \* the click of the fallback path
    ex_event,          \* the download event of the browser
    ex_deadline,       \* whether the timeout of waiter.join has passed
    download_result,   \* the dict shared by the thread and the foreground
    ex_read,           \* what the foreground read from download_result
    ex_saved, \* what export_xls_and_save returned
    \* ---- runs of collect_cfe_from_links for one identifier, several filters ----
    fl_filter,         \* RUT, document type and dates of the run in progress
    fl_csv,            \* result.csv of the identifier, each row with its filter
    fl_processed,      \* the Processed Set of the run
    fl_reports,        \* the Final Reports of the directory, by period
    fl_result_path,    \* the period of the report the latest run wrote
    fl_runs,
    flpc

collectVars == <<csv, apertura, result_xlsx, pc, max_pages, processed,
                 page_count, new_on_page, download_counter, result_path, urls,
                 tried, fallback_elements, new_rows, runs, csv_at_start>>

runVars == <<dotenv, environ, config, args, rpc, result, browsers, logins,
             login_flow, login_outcome, filter_submits, collections,
             collect_max_pages, out_path, jobs>>

authVars == <<lpc, target, dom, inner_text_raises, still_has_input,
              err_detected, raised, final_page>>

httpVars == <<environ_at_start, form, response>>

logVars == <<credentials, console, lgpc>>

extractVars == <<detail_page, data, xpc>>

fechaVars == <<fecha_value, fecha_result, fpc>>

nextVars == <<next_controls, sel_q, attempts, dispatched, next_clicked, npc>>

pageVars == <<pg_urls, pg_idx, pg_opened, pg_processed, pg_seed, pg_csv,
              pg_main, pg_new_rows, pg_fallback, ppc>>

searchVars == <<sq_dates, sq_filled, sq_clicks, sq_final, sqpc>>

reportVars == <<rp_csv, rp_result_xlsx, rp_apertura, rppc>>

exportVars == <<ex_selector, ex_preferred, ex_fg, ex_waiter,
                ex_click, ex_event, ex_deadline, download_result,
                ex_read, ex_saved>>

filtersVars == <<fl_filter, fl_csv, fl_processed, fl_reports,
                 fl_result_path, fl_runs, flpc>>

laterVars == <<pageVars, searchVars, reportVars, exportVars, filtersVars>>

vars == <<collectVars, runVars, httpVars, authVars, logVars, extractVars,
          fechaVars, nextVars, laterVars>>

\* What the actions of one component leave alone
helperVars == <<logVars, extractVars, fechaVars, nextVars, laterVars>>
notCollect == <<runVars, httpVars, authVars, helperVars>>
notRun == <<collectVars, authVars, helperVars>>
notLogin == <<collectVars, runVars, httpVars, helperVars>>
notLog == <<collectVars, runVars, httpVars, authVars, extractVars, fechaVars,
            nextVars, laterVars>>
notExtract == <<collectVars, runVars, httpVars, authVars, logVars, fechaVars,
                nextVars, laterVars>>
notFecha == <<collectVars, runVars, httpVars, authVars, logVars, extractVars,
              nextVars, laterVars>>
notNext == <<collectVars, runVars, httpVars, authVars, logVars, extractVars,
             fechaVars, laterVars>>
earlierVars == <<collectVars, runVars, httpVars, authVars, logVars,
                 extractVars, fechaVars, nextVars>>
notPage == <<earlierVars, searchVars, reportVars, exportVars, filtersVars>>
notFilters == <<earlierVars, pageVars, searchVars, reportVars, exportVars>>
notExport == <<earlierVars, pageVars, searchVars, reportVars, filtersVars>>
notReport == <<earlierVars, pageVars, searchVars, exportVars, filtersVars>>
notSearch == <<earlierVars, pageVars, reportVars, exportVars, filtersVars>>

(***************************************************************************)
(* Bounds of the model.                                                    *)
(***************************************************************************)
MaxRuns == 2            \* runs of collect against the same output directory
MaxCandidates == 2      \* candidate links (or fallback elements) on one page
NumPortalPages == 3     \* result pages the portal offers for one search
MaxK == 2               \* largest integer passed as max_pages
MaxJobs == 2            \* jobs run one after the other in one process

None == "None"

\* The max_pages argument: <<>> for None, <<k>> for the integer k
NoMaxPages == <<>>

(***************************************************************************)
(* Text helpers.                                                           *)
(***************************************************************************)
\* the upper-case letters and their lower-case forms
LowerOf ==
    ("A" :> "a") @@ ("B" :> "b") @@ ("C" :> "c") @@ ("D" :> "d") @@
    ("E" :> "e") @@ ("F" :> "f") @@ ("G" :> "g") @@ ("H" :> "h") @@
    ("I" :> "i") @@ ("J" :> "j") @@ ("K" :> "k") @@ ("L" :> "l") @@
    ("M" :> "m") @@ ("N" :> "n") @@ ("O" :> "o") @@ ("P" :> "p") @@
    ("Q" :> "q") @@ ("R" :> "r") @@ ("S" :> "s") @@ ("T" :> "t") @@
    ("U" :> "u") @@ ("V" :> "v") @@ ("W" :> "w") @@ ("X" :> "x") @@
    ("Y" :> "y") @@ ("Z" :> "z")

LowerChar(c) == IF c \in DOMAIN LowerOf THEN LowerOf[c] ELSE c

\* str.lower()
Lower(s) == [i \in DOMAIN s |-> LowerChar(s[i])]

\* str.rstrip(ch): every trailing ch is removed
RECURSIVE RStrip(_, _)
RStrip(s, ch) ==
    IF s # <<>> /\ s[Len(s)] = ch
    THEN RStrip(SubSeq(s, 1, Len(s) - 1), ch)
    ELSE s

(***************************************************************************)
(* URLs. A URL is kept as the components urllib.parse.urlparse splits it   *)
(* into; urlunparse of components is the text again, so two URLs are the   *)
(* same text iff their components are equal.                               *)
(***************************************************************************)
Url(scheme, netloc, path, query, fragment) ==
    [scheme |-> scheme, netloc |-> netloc, path |-> path, query |-> query,
     fragment |-> fragment]

EmptyUrl == Url(<<>>, <<>>, <<>>, <<>>, <<>>)

https == <<"h", "t", "t", "p", "s">>
HTTPS == <<"H", "T", "T", "P", "S">>
dgi == <<"d", "g", "i">>
DGI == <<"D", "G", "I">>

u1 == Url(https, dgi, <<"/", "d", "1">>, <<>>, <<>>)
u1_slash == Url(https, dgi, <<"/", "d", "1", "/">>, <<>>, <<>>)
u1_frag == Url(https, dgi, <<"/", "d", "1">>, <<>>, <<"f">>)
u1_case == Url(HTTPS, DGI, <<"/", "d", "1">>, <<>>, <<>>)
u2 == Url(https, dgi, <<"/", "d", "2">>, <<>>, <<>>)

\* hrefs the results grid may carry
DetailUrls == {u1, u1_slash, u1_frag, u1_case, u2}

\* The document the portal serves for a URL (the Numero its detail page shows).
DocOf(u) ==
    CASE u \in {u1, u1_slash, u1_frag, u1_case} -> "d1"
      [] u = u2 -> "d2"
      [] OTHER -> ""

\* urllib.parse.urljoin('/', path), on the absolute, dot-free paths of the model
UrlJoinRoot(path) == IF path = <<>> THEN <<"/">> ELSE path

\* A plausible slip: the trailing slash is kept.
_canonicalize_url_keeps_slash(url) ==
    IF url = EmptyUrl
    THEN EmptyUrl
    ELSE Url(Lower(url.scheme), Lower(url.netloc), UrlJoinRoot(url.path),
             url.query, <<>>)

_canonicalize_url(url) ==
    IF url = EmptyUrl
    THEN EmptyUrl
    ELSE Url(Lower(url.scheme), Lower(url.netloc),
             RStrip(UrlJoinRoot(url.path), "/"), url.query, <<>>)

(***************************************************************************)
(* Files and rows.                                                         *)
(***************************************************************************)
\* cols_order, reduced to the document number and the provenance column
cols_order == {"Numero", "h_source_url"}

\* The record process_and_save_current_page appends for a document opened at
\* `url`: the extracted fields plus data['h_source_url'] = url.
ExtractedRow(url) == [Numero |-> DocOf(url), h_source_url |-> url]

NoReport == [exists |-> FALSE, columns |-> {}, rows |-> <<>>]

\* final_df.drop(columns=["h_source_url"])
DropSourceUrl(rows) == [i \in DOMAIN rows |-> [Numero |-> rows[i].Numero]]

\* The canonical URLs one existing output file contributes to the Processed
\* Set: nothing unless the file exists and has an h_source_url column.
SeedFrom(exists, columns, rows) ==
    IF exists /\ "h_source_url" \in columns
    THEN {_canonicalize_url(rows[i].h_source_url) : i \in DOMAIN rows}
    ELSE {}

\* A plausible slip: only the Final Report is read back, the CSV is not.
LoadProcessed_report_only ==
    SeedFrom(apertura.exists, apertura.columns, apertura.rows)

\* processed, as loaded from the existing Final Report and result.csv
LoadProcessed ==
    SeedFrom(apertura.exists, apertura.columns, apertura.rows)
        \cup SeedFrom(csv # <<>>, cols_order, csv)

\* Values of the max_pages argument
MaxPagesValues == {NoMaxPages} \cup {<<k>> : k \in 0..MaxK}

(***************************************************************************)
(* The configuration of the process: the .env file, os.environ and the     *)
(* globals of src.config. Values are strings; Absent stands for a key that *)
(* is not set (os.getenv gives None) and for an argument that is None.     *)
(***************************************************************************)
Absent == "<absent>"

\* No path: collect_cfe_from_links has not returned one
NoPath == [dir |-> <<>>, period |-> <<>>]

\* keys of build_and_apply_overrides: identifier, secret, document type,
\* from date, to date
TextKeys == {"RUT", "CLAVE", "ECF_TIPO", "ECF_FROM_DATE", "ECF_TO_DATE"}
EnvKeys == TextKeys \cup {"MAX_PAGES"}

\* str(n) and int(s) on the integers of the model
Digits == <<"0", "1", "2", "3", "4", "5", "6", "7", "8", "9">>
StrOfInt(n) == Digits[n + 1]
IntOfStr(s) == CHOOSE n \in 0..9 : Digits[n + 1] = s

NoDotenv == [kind |-> "none", vals |-> [k \in EnvKeys |-> Absent]]
EmptyEnviron == [k \in EnvKeys |-> Absent]

\* load_dotenv at the top of config.py: the .env beside the package is loaded
\* with override=True, a .env found elsewhere with override=False.
LoadDotenv(file, env) ==
    CASE file.kind = "base" ->
            [k \in EnvKeys |-> IF file.vals[k] # Absent
                               THEN file.vals[k]
                               ELSE env[k]]
      [] file.kind = "other" ->
            [k \in EnvKeys |-> IF env[k] = Absent /\ file.vals[k] # Absent
                               THEN file.vals[k]
                               ELSE env[k]]
      [] OTHER -> env

\* os.getenv(k, default)
Getenv(env, k, default) == IF env[k] = Absent THEN default ELSE env[k]

\* int(os.getenv('MAX_PAGES')) if os.getenv('MAX_PAGES') else None
ParseMaxPages(v) ==
    IF v = Absent \/ v = "" THEN NoMaxPages ELSE <<IntOfStr(v)>>

\* The assignments of the body of config.py
ModuleBody(env) ==
    [RUT |-> Getenv(env, "RUT", ""),
     CLAVE |-> Getenv(env, "CLAVE", ""),
     ECF_TIPO |-> Getenv(env, "ECF_TIPO", "111"),
     ECF_FROM_DATE |-> Getenv(env, "ECF_FROM_DATE", ""),
     ECF_TO_DATE |-> Getenv(env, "ECF_TO_DATE", ""),
     MAX_PAGES |-> ParseMaxPages(env["MAX_PAGES"])]

\* importlib.reload(config): the body runs again, load_dotenv included
Reload(file, env) ==
    LET loaded == LoadDotenv(file, env)
    IN  [environ |-> loaded, config |-> ModuleBody(loaded)]

\* chosen = cli_val if cli_val is not None else (env_val if env_val is not
\* None and env_val != "" else None)
Chosen(cli_val, env_val) ==
    IF cli_val # Absent
    THEN cli_val
    ELSE IF env_val # Absent /\ env_val # "" THEN env_val ELSE Absent

\* The overrides dict built from the arguments and the environment
Overrides(a, env) ==
    [k \in EnvKeys |->
        IF k \in TextKeys
        THEN Chosen(a[k], env[k])
        ELSE IF a.max_pages # NoMaxPages
             THEN StrOfInt(a.max_pages[1])
             ELSE Absent]

\* config.override_from_dict(d): every value that is not None is written to
\* os.environ; the globals it sets are assigned again by the reload after it.
override_from_dict(d, env) ==
    [k \in EnvKeys |-> IF d[k] # Absent THEN d[k] ELSE env[k]]

\* reload, overrides, override_from_dict, reload
build_and_apply_overrides(a, file, env) ==
    LET first == Reload(file, env)
        d == Overrides(a, first.environ)
    IN  Reload(file, override_from_dict(d, first.environ))

(***************************************************************************)
(* collect_cfe_from_links                                                  *)
(***************************************************************************)
CollectAtRest ==
    /\ csv = <<>>
    /\ apertura = NoReport
    /\ result_xlsx = <<>>
    /\ pc = "idle"
    /\ max_pages = NoMaxPages
    /\ processed = {}
    /\ page_count = 0
    /\ new_on_page = 0
    /\ download_counter = 1
    /\ result_path = None
    /\ urls = 0
    /\ tried = {}
    /\ fallback_elements = 0
    /\ new_rows = 0
    /\ runs = 0
    /\ csv_at_start = 0

\* No job has been submitted: nothing in the environment, no .env file.
NoArgs == [entry |-> Absent, login_method |-> Absent, RUT |-> Absent,
           CLAVE |-> Absent, ECF_TIPO |-> Absent, ECF_FROM_DATE |-> Absent,
           ECF_TO_DATE |-> Absent, max_pages |-> NoMaxPages,
           headless |-> FALSE]
NoResult == [ok |-> FALSE, error |-> Absent, output |-> NoPath]

JobAtRest ==
    /\ args = NoArgs
    /\ rpc = "idle"
    /\ result = NoResult
    /\ browsers = 0
    /\ logins = 0
    /\ login_flow = Absent
    /\ login_outcome = Absent
    /\ filter_submits = 0
    /\ collections = 0
    /\ collect_max_pages = NoMaxPages
    /\ out_path = NoPath
    /\ jobs = 0

RunAtRest ==
    /\ dotenv = NoDotenv
    /\ environ = EmptyEnviron
    /\ config = ModuleBody(EmptyEnviron)
    /\ JobAtRest

\* login_and_continue has not been called.
NoDoc == [attached |-> FALSE, has_input |-> FALSE, text |-> <<>>]
NoDom == [main |-> NoDoc, frames |-> <<>>]

AuthAtRest ==
    /\ lpc = "idle"
    /\ target = Absent
    /\ dom = NoDom
    /\ inner_text_raises = FALSE
    /\ still_has_input = FALSE
    /\ err_detected = FALSE
    /\ raised = Absent
    /\ final_page = Absent

\* No request has been received.
NoForm == [login_method |-> Absent, ident |-> "", secret |-> "",
           from_date |-> "", to_date |-> ""]
NoResponse == [status |-> 0, ok |-> FALSE, error |-> Absent]

HttpAtRest ==
    /\ environ_at_start = EmptyEnviron
    /\ form = NoForm
    /\ response = NoResponse

LogAtRest ==
    /\ credentials = [identifier |-> <<>>, secret |-> <<>>]
    /\ console = {}
    /\ lgpc = "idle"

ExtractAtRest ==
    /\ detail_page = <<>>
    /\ data = <<>>
    /\ xpc = "idle"

FechaAtRest ==
    /\ fecha_value = <<>>
    /\ fecha_result = <<>>
    /\ fpc = "idle"

NextAtRest ==
    /\ next_controls = <<>>
    /\ sel_q = 0
    /\ attempts = <<>>
    /\ dispatched = <<>>
    /\ next_clicked = FALSE
    /\ npc = "idle"

PageAtRest ==
    /\ pg_urls = <<>>
    /\ pg_idx = 0
    /\ pg_opened = <<>>
    /\ pg_processed = {}
    /\ pg_seed = {}
    /\ pg_csv = <<>>
    /\ pg_main = "grid"
    /\ pg_new_rows = 0
    /\ pg_fallback = 0
    /\ ppc = "idle"

SearchAtRest ==
    /\ sq_dates = {}
    /\ sq_filled = {}
    /\ sq_clicks = <<>>
    /\ sq_final = "none"
    /\ sqpc = "idle"

ReportAtRest ==
    /\ rp_csv = <<>>
    /\ rp_result_xlsx = <<>>
    /\ rp_apertura = <<>>
    /\ rppc = "idle"

ExportAtRest ==
    /\ ex_selector = "none"
    /\ ex_preferred = "none"
    /\ ex_fg = "idle"
    /\ ex_waiter = "not_started"
    /\ ex_click = "none"
    /\ ex_event = "none"
    /\ ex_deadline = FALSE
    /\ download_result = [download |-> "None", error |-> "None"]
    /\ ex_read = "none"
    /\ ex_saved = "unset"

\* No run has started
NoFilter ==
    [RUT |-> "", ECF_TIPO |-> "", ECF_FROM_DATE |-> "", ECF_TO_DATE |-> ""]

FiltersAtRest ==
    /\ fl_filter = NoFilter
    /\ fl_csv = <<>>
    /\ fl_processed = {}
    /\ fl_reports = <<>>
    /\ fl_result_path = <<>>
    /\ fl_runs = 0
    /\ flpc = "idle"

LaterAtRest ==
    PageAtRest /\ SearchAtRest /\ ReportAtRest
    /\ ExportAtRest /\ FiltersAtRest

HelpersAtRest ==
    LogAtRest /\ ExtractAtRest /\ FechaAtRest /\ NextAtRest /\ LaterAtRest

\* Nothing of what the earlier sections model has run.
EarlierAtRest ==
    /\ CollectAtRest /\ RunAtRest /\ HttpAtRest /\ AuthAtRest
    /\ LogAtRest /\ ExtractAtRest /\ FechaAtRest /\ NextAtRest

InitCollect ==
    CollectAtRest /\ RunAtRest /\ HttpAtRest /\ AuthAtRest /\ HelpersAtRest

\* The locals of a run that ended; the files stay.
ForgetLocals ==
    /\ max_pages' = NoMaxPages
    /\ processed' = {}
    /\ page_count' = 0
    /\ new_on_page' = 0
    /\ download_counter' = 1
    /\ urls' = 0
    /\ tried' = {}
    /\ fallback_elements' = 0
    /\ new_rows' = 0

\* collect is called: the Processed Set is loaded from the files of the
\* output directory and the first page is about to be processed.
StartCollect ==
    /\ pc = "idle"
    /\ runs < MaxRuns
    /\ \E k \in MaxPagesValues : max_pages' = k
    /\ processed' = LoadProcessed
    /\ page_count' = 1
    /\ download_counter' = 1
    /\ new_on_page' = 0
    /\ runs' = runs + 1
    /\ csv_at_start' = Len(csv)
    /\ result_path' = None
    /\ pc' = "collect_urls"
    /\ UNCHANGED <<csv, apertura, result_xlsx, urls, tried, fallback_elements,
                   new_rows>>
    /\ UNCHANGED notCollect

\* process_and_save_current_page, up to its loops: the candidate URLs of the
\* page are collected, or the fallback elements when there is no candidate
\* URL. The list is fixed here; the model keeps its length and draws each
\* URL when the loop reaches it, never the same text twice (the `tried` set
\* of _collect_candidate_urls).
CollectCandidates ==
    /\ pc = "collect_urls"
    /\ \E n \in 0..MaxCandidates, m \in 0..MaxCandidates :
        /\ n > 0 => m = 0
        /\ urls' = n
        /\ fallback_elements' = m
    /\ tried' = {}
    /\ new_rows' = 0
    /\ pc' = "url_loop"
    /\ UNCHANGED <<csv, apertura, result_xlsx, max_pages, processed,
                   page_count, new_on_page, download_counter, result_path,
                   runs, csv_at_start>>
    /\ UNCHANGED notCollect

\* What opening and extracting one candidate can come to: opened by
\* window.open, by a new page of the context, in place on the main page, not
\* opened at all, or opened and extracted with the append failing.
OpenOutcomes == {"window_open", "new_page", "in_place", "open_failed",
                 "append_failed"}

Appends(outcome) == outcome \in {"window_open", "new_page", "in_place"}

\* if canon in processed: continue
AlreadyProcessed(canon) == canon \in processed

\* One iteration of the loop over the candidate URLs.
ProcessUrl ==
    /\ pc = "url_loop"
    /\ urls > 0
    /\ \E url \in DetailUrls \ tried :
        LET canon == _canonicalize_url(url)
        IN  /\ IF AlreadyProcessed(canon)
               THEN UNCHANGED <<csv, processed, new_rows>>
               ELSE \E outcome \in OpenOutcomes :
                       IF Appends(outcome)
                       THEN /\ csv' = Append(csv, ExtractedRow(url))
                            /\ processed' = processed \cup {canon}
                            /\ new_rows' = new_rows + 1
                       ELSE UNCHANGED <<csv, processed, new_rows>>
            /\ tried' = IF urls = 1 THEN {} ELSE tried \cup {url}
    /\ urls' = urls - 1
    /\ UNCHANGED <<apertura, result_xlsx, pc, max_pages, page_count,
                   new_on_page, download_counter, result_path,
                   fallback_elements, runs, csv_at_start>>
    /\ UNCHANGED notCollect

\* What clicking a fallback element can come to.
ClickOutcomes == {"new_tab", "in_place", "click_failed", "append_failed"}

\* One iteration of the loop over the fallback elements: the element is
\* clicked and the page it leads to (src_url is that page's URL) is extracted.
\* A click that succeeds leads to the detail page of a document; a browser
\* page always has a URL, so src_url is never empty.
ProcessFallbackElement ==
    /\ \/ pc = "url_loop" /\ urls = 0 /\ new_rows = 0
       \/ pc = "fallback_loop"
    /\ fallback_elements > 0
    /\ \E outcome \in ClickOutcomes, src_url \in DetailUrls :
        LET canon == IF src_url # EmptyUrl
                     THEN _canonicalize_url(src_url)
                     ELSE EmptyUrl
        IN  IF \/ outcome \in {"click_failed", "append_failed"}
               \/ (canon # EmptyUrl /\ AlreadyProcessed(canon))
            THEN UNCHANGED <<csv, processed, new_rows>>
            ELSE /\ csv' = Append(csv, ExtractedRow(src_url))
                 /\ processed' = IF canon # EmptyUrl
                                 THEN processed \cup {canon}
                                 ELSE processed
                 /\ new_rows' = new_rows + 1
    /\ fallback_elements' = fallback_elements - 1
    /\ pc' = "fallback_loop"
    /\ UNCHANGED <<apertura, result_xlsx, max_pages, page_count, new_on_page,
                   download_counter, result_path, urls, tried, runs,
                   csv_at_start>>
    /\ UNCHANGED notCollect

\* The end of process_and_save_current_page: the intermediate spreadsheet is
\* rewritten from the CSV (best effort) and the number of new rows returned.
FinishPage ==
    /\ \/ pc = "url_loop" /\ urls = 0 /\ ~(new_rows = 0 /\ fallback_elements > 0)
       \/ pc = "fallback_loop" /\ fallback_elements = 0
    /\ \E saved \in BOOLEAN :
        result_xlsx' = IF csv # <<>> /\ saved THEN csv ELSE result_xlsx
    /\ new_on_page' = new_rows
    /\ new_rows' = 0
    /\ pc' = "export"
    /\ UNCHANGED <<csv, apertura, max_pages, processed, page_count,
                   download_counter, result_path, urls, tried,
                   fallback_elements, runs, csv_at_start>>
    /\ UNCHANGED notCollect

\* The idx that _move_and_rename_download puts into the name of an export,
\* f"{base_name}_p{idx}": the caller passes idx=download_counter
ExportNameIndex == download_counter

\* How one call of export_xls_and_save ends: every branch returns, the path
\* of the saved file or None.
ExportOutcomes == {"saved", "not_found", "click_failed", "no_download",
                   "listener_error", "save_failed", "outer_exception"}

\* `if saved:` on what export_xls_and_save returned
Saved(outcome) == outcome = "saved"

\* A plausible slip: a failed export ends the page loop.
AfterExport_stops(saved) == IF saved THEN "decide" ELSE "final"

\* Where the orchestrator is after the try/except around the export
AfterExport(saved) == "decide"

\* export_xls_and_save for the page just processed; a saved download is
\* handed to _move_and_rename_download with idx=download_counter.
ExportPage ==
    /\ pc = "export"
    /\ \E outcome \in ExportOutcomes :
        /\ download_counter' = IF Saved(outcome)
                               THEN download_counter + 1
                               ELSE download_counter
        /\ pc' = AfterExport(Saved(outcome))
    /\ UNCHANGED <<csv, apertura, result_xlsx, max_pages, processed,
                   page_count, new_on_page, result_path, urls, tried,
                   fallback_elements, new_rows, runs, csv_at_start>>
    /\ UNCHANGED notCollect

\* A plausible slip: the loop goes on after a page without new rows.
StopOnNoNewRows_never == FALSE

\* if new_on_page == 0: break
StopOnNoNewRows == new_on_page = 0

\* if max_pages is not None and page_count >= max_pages: break
MaxPagesReached == max_pages # NoMaxPages /\ page_count >= max_pages[1]

\* One pass of the while loop: the stop checks, then click_next_only; when
\* the click succeeded the next page is counted and processed.
Decide ==
    /\ pc = "decide"
    /\ IF MaxPagesReached \/ StopOnNoNewRows
       THEN /\ pc' = "final"
            /\ UNCHANGED page_count
       ELSE \E clicked \in IF page_count < NumPortalPages
                           THEN BOOLEAN
                           ELSE {FALSE} :
               IF clicked
               THEN /\ page_count' = page_count + 1
                    /\ pc' = "collect_urls"
               ELSE /\ pc' = "final"
                    /\ UNCHANGED page_count
    /\ UNCHANGED <<csv, apertura, result_xlsx, max_pages, processed,
                   new_on_page, download_counter, result_path, urls, tried,
                   fallback_elements, new_rows, runs, csv_at_start>>
    /\ UNCHANGED notCollect

\* The Final Report is written from the CSV without its h_source_url column,
\* and collect returns.
FinalWrite ==
    /\ pc = "final"
    /\ \E outcome \in {"written", "permission_denied", "failed"} :
        /\ apertura' = IF outcome = "written"
                       THEN [exists |-> TRUE,
                             columns |-> cols_order \ {"h_source_url"},
                             rows |-> DropSourceUrl(csv)]
                       ELSE apertura
        /\ result_path' = CASE outcome = "written" -> "apertura"
                            [] outcome = "permission_denied" -> "timestamped"
                            [] OTHER -> "csv"
    /\ pc' = "idle"
    /\ ForgetLocals
    /\ UNCHANGED <<csv, result_xlsx, runs, csv_at_start>>
    /\ UNCHANGED notCollect

\* The process dies in the middle of a run: what is on disk stays.
Crash ==
    /\ pc # "idle"
    /\ pc' = "idle"
    /\ ForgetLocals
    /\ UNCHANGED <<csv, apertura, result_xlsx, result_path, runs,
                   csv_at_start>>
    /\ UNCHANGED notCollect

\* Between two runs result.csv is gone from the output directory (moved or
\* cleaned up) while the Final Report stays: the case the os.path.exists
\* guard of the loading code provides for.
RemoveIncrementalCsv ==
    /\ pc = "idle"
    /\ csv # <<>>
    /\ apertura.exists
    /\ csv' = <<>>
    /\ UNCHANGED <<apertura, result_xlsx, pc, max_pages, processed,
                   page_count, new_on_page, download_counter, result_path,
                   urls, tried, fallback_elements, new_rows, runs,
                   csv_at_start>>
    /\ UNCHANGED notCollect

NextCollect ==
    \/ StartCollect
    \/ CollectCandidates
    \/ ProcessUrl
    \/ ProcessFallbackElement
    \/ FinishPage
    \/ ExportPage
    \/ Decide
    \/ FinalWrite
    \/ Crash
    \/ RemoveIncrementalCsv

SpecCollect == InitCollect /\ [][NextCollect]_vars

\* A run in progress always takes the next pass of its loop: the orchestrator
\* is one sequential thread that nothing suspends between the stop checks.
FairSpecCollect == SpecCollect /\ WF_vars(Decide)

(***************************************************************************)
(* Properties of the Collection Orchestrator.                              *)
(***************************************************************************)
\* Two URLs address the same document when they differ only by fragment,
\* trailing slash, or the letter case of scheme and host.
SameDocument(a, b) ==
    /\ Lower(a.scheme) = Lower(b.scheme)
    /\ Lower(a.netloc) = Lower(b.netloc)
    /\ RStrip(a.path, "/") = RStrip(b.path, "/")
    /\ a.query = b.query

\* The rows of result.csv the current run appended / found when it started
RowsOfThisRun == (csv_at_start + 1)..Len(csv)
RowsOfEarlierRuns == 1..csv_at_start

\* process_and_save_current_page has returned for page page_count
PageDone == pc \in {"export", "decide", "final"}

\* C1: within one run, no two records are appended to result.csv for URLs
\* that address the same document (equal up to fragment, trailing slash and
\* scheme/host case): once one is appended the other is skipped.
C1_OneRecordPerDocument ==
    \A i, j \in RowsOfThisRun :
        SameDocument(csv[i].h_source_url, csv[j].h_source_url) => i = j

\* C1 witness: a candidate was visited and skipped because another text of
\* the same document had been appended earlier in this run.
C1_Witness ==
    /\ pc = "url_loop"
    /\ new_rows = 0
    /\ \E i \in RowsOfThisRun, t \in tried :
        /\ t # csv[i].h_source_url
        /\ SameDocument(t, csv[i].h_source_url)

\* C2: when a run starts on an output directory that holds the Final Report
\* of an earlier run, the Processed Set holds a canonical URL of every
\* document of that report, and the run appends no record for any of them.
C2_SeededFromFinalReport ==
    pc # "idle" =>
        \A r \in DOMAIN apertura.rows :
            /\ \E u \in DetailUrls :
                /\ DocOf(u) = apertura.rows[r].Numero
                /\ _canonicalize_url(u) \in processed
            /\ \A i \in RowsOfThisRun : csv[i].Numero # apertura.rows[r].Numero

\* C3: in a run on an output directory whose result.csv holds the records of
\* earlier runs, ended normally or not, the canonical URL of each of those
\* records is in the Processed Set from before page 1 on, and no record is
\* appended for a document that already has one.
C3_ResumedRunSkipsAppended ==
    pc # "idle" =>
        /\ \A i \in RowsOfEarlierRuns :
            _canonicalize_url(csv[i].h_source_url) \in processed
        /\ \A i \in RowsOfEarlierRuns, j \in RowsOfThisRun :
            ~SameDocument(csv[i].h_source_url, csv[j].h_source_url)

\* C3 witness: the earlier run ended without writing its Final Report, and
\* this run has met and skipped a document the earlier run had appended.
C3_Witness ==
    /\ runs = 2
    /\ ~apertura.exists
    /\ pc = "url_loop"
    /\ new_rows = 0
    /\ \E i \in RowsOfEarlierRuns, t \in tried :
        /\ t # csv[i].h_source_url
        /\ SameDocument(t, csv[i].h_source_url)

\* C4: after a page that yielded no new record the loop processes no further
\* page: its next step leaves the loop (or the process dies), and the loop
\* is eventually left, whatever max_pages and the next-page control are.
C4_StopsAfterPageWithoutNewRows ==
    /\ [][(pc = "decide" /\ new_on_page = 0) => pc' \in {"final", "idle"}]_vars
    /\ (pc = "decide" /\ new_on_page = 0) ~> (pc \in {"final", "idle"})

\* C4 witness: page 2 yielded nothing new while max_pages is unset and the
\* portal still offers a next page.
C4_Witness ==
    /\ pc = "decide"
    /\ new_on_page = 0
    /\ max_pages = NoMaxPages
    /\ page_count = 2
    /\ page_count < NumPortalPages

\* C5: a run called with max_pages = k, k = 0 included, has processed at most
\* k pages.
C5_AtMostMaxPages ==
    (max_pages # NoMaxPages /\ PageDone) => page_count <= max_pages[1]

\* C16: an export captured while the orchestrator is on result page n is
\* stored under a name whose page index is n, also when the export of an
\* earlier page failed.
C16_ExportNamedAfterItsPage ==
    [][(pc = "export" /\ download_counter' = download_counter + 1)
            => ExportNameIndex = page_count]_vars

\* C21: whatever way the export of a page ends, the orchestrator goes on to
\* its stop checks with the page's counters untouched, and the stop checks
\* and the pagination do what they do after a saved export: the loop ends
\* only on max_pages, on a page without new rows or on a failed next click,
\* and the next page can be reached whenever none of the first two holds.
C21_ExportIsBestEffort ==
    /\ [][pc = "export" /\ pc' # "idle"
            => /\ pc' = "decide"
               /\ UNCHANGED <<max_pages, page_count, new_on_page, csv,
                              processed>>]_vars
    /\ [][pc = "decide" /\ pc' = "collect_urls"
            => ~MaxPagesReached /\ ~StopOnNoNewRows]_vars
    /\ []((pc = "decide" /\ ~MaxPagesReached /\ ~StopOnNoNewRows
                /\ page_count < NumPortalPages)
            => ENABLED (Decide /\ pc' = "collect_urls"))

\* C21 witness: the export of page 1 failed and page 2 is being processed.
C21_Witness ==
    /\ pc = "collect_urls"
    /\ page_count = 2
    /\ download_counter = 1

(***************************************************************************)
(* The Job Runner: POST /run of app.py and run of main.py. One process     *)
(* serves its jobs one after the other; os.environ and the config module   *)
(* outlive a job. A command-line run is a process of its own.              *)
(***************************************************************************)
\* The value a caller gives for a key in its n-th job
CallerValues == <<"c1", "c2", "c3", "c4">>
CallerValue(n) == CallerValues[n]

\* What the process starts with: variables set by the shell, and a .env file
CredentialKeys == {"RUT", "CLAVE"}

InitialEnvirons ==
    {[k \in EnvKeys |-> IF k \in set THEN (IF k = "MAX_PAGES" THEN "1" ELSE "e")
                        ELSE Absent] :
        set \in SUBSET (CredentialKeys \cup {"MAX_PAGES"})}

DotenvFiles ==
    {NoDotenv} \cup
    {[kind |-> kind,
      vals |-> [k \in EnvKeys |-> IF k \in set THEN "f" ELSE Absent]] :
        kind \in {"base", "other"}, set \in SUBSET CredentialKeys}

\* config is imported when the process starts
InitRun ==
    /\ CollectAtRest
    /\ AuthAtRest
    /\ HelpersAtRest
    /\ JobAtRest
    /\ dotenv \in DotenvFiles
    /\ \E env \in InitialEnvirons :
        /\ environ = Reload(dotenv, env).environ
        /\ config = Reload(dotenv, env).config
    /\ environ_at_start = environ
    /\ form = NoForm
    /\ response = NoResponse

NewJob ==
    /\ jobs' = jobs + 1
    /\ result' = NoResult
    /\ browsers' = 0
    /\ logins' = 0
    /\ login_flow' = Absent
    /\ login_outcome' = Absent
    /\ filter_submits' = 0
    /\ collections' = 0
    /\ collect_max_pages' = NoMaxPages
    /\ out_path' = NoPath
    /\ rpc' = "run"

\* x or None
OrNone(x) == IF x = "" THEN Absent ELSE x

\* The dates of the model, as the form carries them (YYYY-MM-DD), the day
\* datetime.fromisoformat makes of each (counted from 2025-06-30) and its
\* strftime("%d/%m/%Y")
IsoDates == {"2025-07-01", "2025-07-30", "2025-07-31"}

DayOf ==
    ("2025-07-01" :> 1) @@ ("2025-07-30" :> 30) @@ ("2025-07-31" :> 31)

DmyOf ==
    ("2025-07-01" :> "01/07/2025") @@ ("2025-07-30" :> "30/07/2025") @@
    ("2025-07-31" :> "31/07/2025")

\* _iso_to_ddmmyyyy of app.py
_iso_to_ddmmyyyy(iso_date_str) ==
    IF iso_date_str = ""
    THEN Absent
    ELSE IF iso_date_str \in DOMAIN DmyOf
         THEN DmyOf[iso_date_str]
         ELSE iso_date_str

\* diff_days = (d_to - d_from).days + 1
DiffDays(from_date_iso, to_date_iso) ==
    DayOf[to_date_iso] - DayOf[from_date_iso] + 1

\* the largest range run_scraper lets through, in days
MaxRangeDays == 30

\* A plausible slip: the range is measured without its first day.
DateRangeRejected_exclusive(diff_days) ==
    diff_days - 1 <= 0 \/ diff_days - 1 > MaxRangeDays

\* if diff_days <= 0: ... 400; if diff_days > 30: ... 400
DateRangeRejected(diff_days) == diff_days <= 0 \/ diff_days > MaxRangeDays

RangeErrorMsg(diff_days) ==
    IF diff_days <= 0
    THEN "ECF_TO_DATE must be same or after ECF_FROM_DATE."
    ELSE "Date range too large: max allowed is 30 days."

\* run_scraper up to its call of main_mod.run, for the form f: the identifier
\* and the secret are read from the fields of the chosen login method and
\* handed on as rut and clave; the login method itself is not handed on. A
\* pair of dates that fails the validation is answered with 400 and run is
\* not called.
run_scraper(f) ==
    /\ rpc = "idle"
    /\ jobs < MaxJobs
    /\ form' = f
    /\ IF /\ f.from_date # ""
          /\ f.to_date # ""
          /\ DateRangeRejected(DiffDays(f.from_date, f.to_date))
       THEN /\ response' = [status |-> 400, ok |-> FALSE,
                            error |-> RangeErrorMsg(
                                DiffDays(f.from_date, f.to_date))]
            /\ UNCHANGED <<args, rpc, result, browsers, logins, login_flow,
                           login_outcome, filter_submits, collections,
                           collect_max_pages, out_path, jobs>>
       ELSE /\ response' = NoResponse
            /\ args' = [entry |-> "http", login_method |-> f.login_method,
                        RUT |-> OrNone(f.ident), CLAVE |-> OrNone(f.secret),
                        ECF_TIPO |-> Absent,
                        ECF_FROM_DATE |-> _iso_to_ddmmyyyy(f.from_date),
                        ECF_TO_DATE |-> _iso_to_ddmmyyyy(f.to_date),
                        max_pages |-> NoMaxPages, headless |-> TRUE]
            /\ NewJob
    /\ UNCHANGED <<dotenv, environ, config, environ_at_start>>
    /\ UNCHANGED notRun

\* POST /run without dates
SubmitHttp ==
    \E login_method \in {"rut", "cedula"},
       ident \in {"", CallerValue(jobs + 1)},
       secret \in {"", CallerValue(jobs + 1)} :
        run_scraper([login_method |-> login_method, ident |-> ident,
                     secret |-> secret, from_date |-> "", to_date |-> ""])

\* python -m src.main, a process that serves no request: parse_args; there is
\* no login method on the command line, and the browser is headed unless
\* --headless is given.
SubmitCli ==
    /\ rpc = "idle"
    /\ jobs = 0
    /\ form = NoForm
    /\ \E rut \in {Absent, CallerValue(1)}, clave \in {Absent, CallerValue(1)},
          mp \in {NoMaxPages, <<0>>}, headless \in BOOLEAN :
        args' = [entry |-> "cli", login_method |-> Absent, RUT |-> rut,
                 CLAVE |-> clave, ECF_TIPO |-> Absent,
                 ECF_FROM_DATE |-> Absent, ECF_TO_DATE |-> Absent,
                 max_pages |-> mp, headless |-> headless]
    /\ NewJob
    /\ UNCHANGED <<dotenv, environ, config>>
    /\ UNCHANGED httpVars
    /\ UNCHANGED notRun

\* normalize_date_ddmmyyyy: a value with a slash is kept, an ISO date is
\* rewritten as DD/MM/YYYY, anything else is kept; nothing gives None
normalize_date_ddmmyyyy(x) ==
    IF x = Absent \/ x = ""
    THEN Absent
    ELSE IF x \in DOMAIN DmyOf THEN DmyOf[x] ELSE x

\* if getattr(args, "from_date", None): args.from_date = normalize...
NormalizedArgs(a) ==
    [a EXCEPT !.ECF_FROM_DATE = IF @ \in {Absent, ""}
                                THEN @
                                ELSE normalize_date_ddmmyyyy(@),
              !.ECF_TO_DATE = IF @ \in {Absent, ""}
                              THEN @
                              ELSE normalize_date_ddmmyyyy(@)]

\* The start of run: the dates of args are normalised, then
\* config = build_and_apply_overrides(args)
ApplyOverrides ==
    /\ rpc = "run"
    /\ args' = NormalizedArgs(args)
    /\ LET merged == build_and_apply_overrides(args', dotenv, environ)
       IN  /\ environ' = merged.environ
           /\ config' = merged.config
    /\ rpc' = "check"
    /\ UNCHANGED <<dotenv, result, browsers, logins, login_flow,
                   login_outcome, filter_submits, collections,
                   collect_max_pages, out_path, jobs>>
    /\ UNCHANGED httpVars
    /\ UNCHANGED notRun

MissingCredentialsMsg ==
    "RUT or CLAVE is empty after forced overrides. Aborting. Provide them via CLI, environment variables, or caller (frontend)."
LoginFailedMsg == "Login appears to have failed (ValueError raised). Check debug files."
ExceptionText == "str(e)"

\* A plausible slip: the run is refused only when both are empty.
CredentialsMissing_both(cfg) == cfg.RUT = "" /\ cfg.CLAVE = ""

\* not getattr(config, "RUT", "") or not getattr(config, "CLAVE", "")
CredentialsMissing(cfg) == cfg.RUT = "" \/ cfg.CLAVE = ""

\* The sanity check of run: without credentials it returns at once.
CheckCredentials ==
    /\ rpc = "check"
    /\ IF CredentialsMissing(config)
       THEN /\ result' = [ok |-> FALSE, error |-> MissingCredentialsMsg,
                          output |-> NoPath]
            /\ rpc' = "returned"
       ELSE /\ rpc' = "launch"
            /\ UNCHANGED result
    /\ UNCHANGED <<dotenv, environ, config, args, browsers, logins,
                   login_flow, login_outcome, filter_submits, collections,
                   collect_max_pages, out_path, jobs>>
    /\ UNCHANGED httpVars
    /\ UNCHANGED notRun

\* headless_forced when given, else args.headless
Headless(a) == IF a.entry = "http" THEN TRUE ELSE a.headless

\* sync_playwright, chromium.launch, new_context, new_page, goto of the start
\* URL (a failed goto is only warned about). A failure to start the browser
\* is caught by the outer handler of run.
LaunchBrowser ==
    /\ rpc = "launch"
    /\ \E launched \in BOOLEAN :
        IF launched
        THEN /\ browsers' = browsers + 1
             /\ rpc' = "login"
             /\ UNCHANGED result
        ELSE /\ result' = [ok |-> FALSE, error |-> ExceptionText,
                           output |-> NoPath]
             /\ rpc' = "returned"
             /\ UNCHANGED browsers
    /\ UNCHANGED <<dotenv, environ, config, args, logins, login_flow,
                   login_outcome, filter_submits, collections,
                   collect_max_pages, out_path, jobs>>
    /\ UNCHANGED httpVars
    /\ UNCHANGED notRun

\* The authentication function run calls for a job
LoginFlow(a) == "auth.login_and_continue"

\* A plausible slip: a failed login is warned about like a failed search.
AfterLogin_goes_on(outcome) == "fill"

\* Where run goes after the login call: both except clauses return.
AfterLogin(outcome) == IF outcome = "returned" THEN "fill" ELSE "returned"

\* The login step of run and its two exception handlers.
Login ==
    /\ rpc = "login"
    /\ login_flow' = LoginFlow(args)
    /\ logins' = logins + 1
    /\ \E outcome \in {"returned", "ValueError", "Exception"} :
        /\ login_outcome' = outcome
        /\ rpc' = AfterLogin(outcome)
        /\ result' = CASE outcome = "ValueError" ->
                            [ok |-> FALSE, error |-> LoginFailedMsg,
                             output |-> NoPath]
                       [] outcome = "Exception" ->
                            [ok |-> FALSE, error |-> ExceptionText,
                             output |-> NoPath]
                       [] OTHER -> result
    /\ UNCHANGED <<dotenv, environ, config, args, browsers, filter_submits,
                   collections, collect_max_pages, out_path, jobs>>
    /\ UNCHANGED httpVars
    /\ UNCHANGED notRun

\* auth.fill_cfe_and_consult; an exception is only warned about.
FillAndConsult ==
    /\ rpc = "fill"
    /\ filter_submits' = filter_submits + 1
    /\ rpc' = "collect"
    /\ UNCHANGED <<dotenv, environ, config, args, result, browsers, logins,
                   login_flow, login_outcome, collections, collect_max_pages,
                   out_path, jobs>>
    /\ UNCHANGED httpVars
    /\ UNCHANGED notRun

\* parse_date of _period_string on the dates of the model: year, month and
\* day as f"{d.year}", f"{d.month}", f"{d.day}" print them
YmdOf ==
    ("01/07/2025" :> <<"2025", "7", "1">>) @@
    ("30/07/2025" :> <<"2025", "7", "30">>) @@
    ("31/07/2025" :> <<"2025", "7", "31">>) @@
    ("2025-07-01" :> <<"2025", "7", "1">>) @@
    ("2025-07-30" :> <<"2025", "7", "30">>) @@
    ("2025-07-31" :> <<"2025", "7", "31">>)

\* <<>> stands for None
parse_date(x) == IF x \in DOMAIN YmdOf THEN YmdOf[x] ELSE <<>>

\* f"{d.year}_{d.month}_{d.day}"
DateToken(d) == <<d[1], "_", d[2], "_", d[3]>>

_period_string(from_s, to_s) ==
    LET d1 == parse_date(from_s)
        d2 == parse_date(to_s)
    IN  CASE d1 # <<>> /\ d2 # <<>> -> DateToken(d1) \o <<"-">> \o DateToken(d2)
          [] d1 # <<>> /\ d2 = <<>> -> DateToken(d1) \o <<"-">>
          [] d2 # <<>> /\ d1 = <<>> -> <<"-">> \o DateToken(d2)
          [] OTHER -> <<"ALL">>

\* OUTPUT_DIR of config.py, and the sanitised process name (the title of the
\* page, or PROCESS_NAME)
output_root == "output"
process_base == "CFERecibidos"

\* rut_dir and period of collect_cfe_from_links: where the Final Report goes
\* and the period its name carries
ReportPath(cfg) ==
    [dir |-> <<output_root, process_base,
               IF cfg.RUT = "" THEN "unknown_rut" ELSE cfg.RUT>>,
     period |-> _period_string(cfg.ECF_FROM_DATE, cfg.ECF_TO_DATE)]

\* auth.collect_cfe_from_links(..., max_pages=config.MAX_PAGES); an exception
\* is only logged and out_path stays None.
Collect ==
    /\ rpc = "collect"
    /\ collections' = collections + 1
    /\ collect_max_pages' = config.MAX_PAGES
    /\ \E collected \in BOOLEAN :
        out_path' = IF collected THEN ReportPath(config) ELSE NoPath
    /\ rpc' = "post"
    /\ UNCHANGED <<dotenv, environ, config, args, result, browsers, logins,
                   login_flow, login_outcome, filter_submits, jobs>>
    /\ UNCHANGED httpVars
    /\ UNCHANGED notRun

\* The post action (best effort), then the browser is closed and run returns;
\* a headed run first waits for Ctrl+C.
Finish ==
    /\ rpc = "post"
    /\ IF Headless(args)
       THEN /\ result' = [ok |-> TRUE, error |-> Absent, output |-> out_path]
            /\ rpc' = "returned"
       ELSE /\ rpc' = "headed_wait"
            /\ UNCHANGED result
    /\ UNCHANGED <<dotenv, environ, config, args, browsers, logins,
                   login_flow, login_outcome, filter_submits, collections,
                   collect_max_pages, out_path, jobs>>
    /\ UNCHANGED httpVars
    /\ UNCHANGED notRun

\* except KeyboardInterrupt of the headed wait
KeyboardInterrupt ==
    /\ rpc = "headed_wait"
    /\ result' = [ok |-> TRUE, error |-> Absent, output |-> out_path]
    /\ rpc' = "returned"
    /\ UNCHANGED <<dotenv, environ, config, args, browsers, logins,
                   login_flow, login_outcome, filter_submits, collections,
                   collect_max_pages, out_path, jobs>>
    /\ UNCHANGED httpVars
    /\ UNCHANGED notRun

\* The HTTP handler answers and the server takes the next request; a
\* command-line process exits.
Respond ==
    /\ rpc = "returned"
    /\ rpc' = IF args.entry = "http" THEN "idle" ELSE "exited"
    /\ response' = IF args.entry # "http"
                   THEN response
                   ELSE IF result.ok
                        THEN [status |-> 200, ok |-> TRUE, error |-> Absent]
                        ELSE [status |-> 500, ok |-> FALSE,
                              error |-> IF result.error \in {Absent, ""}
                                        THEN "unknown"
                                        ELSE result.error]
    /\ UNCHANGED <<environ_at_start, form>>
    /\ UNCHANGED <<dotenv, environ, config, args, result, browsers, logins,
                   login_flow, login_outcome, filter_submits, collections,
                   collect_max_pages, out_path, jobs>>
    /\ UNCHANGED notRun

NextRun ==
    \/ SubmitHttp
    \/ SubmitCli
    \/ ApplyOverrides
    \/ CheckCredentials
    \/ LaunchBrowser
    \/ Login
    \/ FillAndConsult
    \/ Collect
    \/ Finish
    \/ KeyboardInterrupt
    \/ Respond

SpecRun == InitRun /\ [][NextRun]_vars

(***************************************************************************)
(* Properties of the Job Runner.                                           *)
(***************************************************************************)
\* run is past its credential check for the job at hand
PastCredentialCheck == jobs > 0 /\ rpc \notin {"run", "check"}

\* run has returned for the job at hand
RunReturned == jobs > 0 /\ rpc \in {"returned", "idle", "exited"}

\* C6: when the identifier or the secret is empty after the caller values
\* and the environment have been merged, run returns ok=false with the
\* message that says so, and no browser session is launched for the job.
C6_MissingCredentialsFailFast ==
    (PastCredentialCheck /\ (config.RUT = "" \/ config.CLAVE = ""))
        => /\ RunReturned
           /\ result.ok = FALSE
           /\ result.error = MissingCredentialsMsg
           /\ browsers = 0

\* C6 witness: run returned for a job whose identifier is set and whose
\* secret is empty.
C6_Witness ==
    /\ rpc = "returned"
    /\ config.RUT # ""
    /\ config.CLAVE = ""
    /\ result.ok = FALSE
    /\ browsers = 0

\* C7: after the login step raised, the job submits no filter, collects
\* nothing, does not log in a second time, and run returns ok=false; for the
\* authentication error (ValueError) the error message is the fixed,
\* non-empty one.
C7_AuthFailureIsFatal ==
    login_outcome \in {"ValueError", "Exception"}
        => /\ RunReturned
           /\ result.ok = FALSE
           /\ login_outcome = "ValueError"
                => result.error = LoginFailedMsg /\ LoginFailedMsg # ""
           /\ filter_submits = 0
           /\ collections = 0
           /\ logins = 1

\* C7 witness: run returned after the login step raised ValueError.
C7_Witness ==
    /\ rpc = "returned"
    /\ login_outcome = "ValueError"
    /\ browsers = 1
    /\ result.ok = FALSE

\* config holds the merged values for the job at hand
PastMerge == jobs > 0 /\ rpc # "run"

\* C11: credentials given to one job are gone after it: a job whose caller
\* gives neither identifier nor secret, in a process that started without
\* them, fails fast with the missing-credentials error whatever jobs ran
\* before it.
C11_CredentialsNotRetained ==
    (/\ PastCredentialCheck
     /\ args.RUT = Absent
     /\ args.CLAVE = Absent
     /\ environ_at_start["RUT"] = Absent
     /\ environ_at_start["CLAVE"] = Absent)
        => /\ result.ok = FALSE
           /\ result.error = MissingCredentialsMsg
           /\ browsers = 0
           /\ logins = 0

\* C12: for each of identifier, secret, document type, from date and to
\* date, the job runs with the caller's value when the caller gives one and
\* with the value of the environment only when the caller gives none, with
\* or without a .env file.
C12_CallerValueWins ==
    PastMerge =>
        \A k \in TextKeys :
            /\ args[k] # Absent => config[k] = args[k]
            /\ args[k] = Absent => config[k] = ModuleBody(environ)[k]

\* The steps of run follow one another without waiting for anything outside
\* the process, each bounded by its timeouts; Ctrl+C is the user's, and
\* nothing makes it come.
FairSpecRun ==
    /\ SpecRun
    /\ WF_vars(ApplyOverrides) /\ WF_vars(CheckCredentials)
    /\ WF_vars(LaunchBrowser) /\ WF_vars(Login) /\ WF_vars(FillAndConsult)
    /\ WF_vars(Collect) /\ WF_vars(Finish) /\ WF_vars(Respond)

\* C23: a job whose collection has ended, with a report or with an error,
\* eventually returns its result to the caller, headless or headed.
C23_RunEventuallyReturns ==
    (rpc = "post") ~> (rpc \in {"returned", "idle", "exited"})

\* C29: a result with ok = true carries the path of a report; in particular a
\* job whose collection raised does not return ok = true.
C29_OkOnlyWithReportPath ==
    (RunReturned /\ result.ok) => result.output # NoPath

\* C10: a job submitted with login_method = cedula is authenticated by the
\* identity-provider flow (login_with_cedula_direct of cedula.py), not by the
\* login-form flow.
C10_CedulaUsesIdentityProviderFlow ==
    (args.login_method = "cedula" /\ logins > 0)
        => login_flow = "cedula.login_with_cedula_direct"

(***************************************************************************)
(* Jobs with date bounds. The callers give their credentials; what varies  *)
(* is the dates. The process starts without a .env file and with nothing   *)
(* in its environment.                                                     *)
(***************************************************************************)
InitDates ==
    CollectAtRest /\ RunAtRest /\ HttpAtRest /\ AuthAtRest /\ HelpersAtRest

\* POST /run with the credentials and any of the dates, or none
SubmitHttpDated ==
    \E from_date \in {""} \cup IsoDates, to_date \in {""} \cup IsoDates :
        run_scraper([login_method |-> "rut", ident |-> CallerValue(jobs + 1),
                     secret |-> CallerValue(jobs + 1),
                     from_date |-> from_date, to_date |-> to_date])

\* Dates as --from and --to take them: DD/MM/YYYY or ISO
CliDates == {Absent, "2025-07-01", "31/07/2025"}

\* python -m src.main --rut ... --clave ... --from ... --to ...
SubmitCliDated ==
    /\ rpc = "idle"
    /\ jobs = 0
    /\ form = NoForm
    /\ \E from_date \in CliDates, to_date \in CliDates, headless \in BOOLEAN :
        args' = [entry |-> "cli", login_method |-> Absent,
                 RUT |-> CallerValue(1), CLAVE |-> CallerValue(1),
                 ECF_TIPO |-> Absent, ECF_FROM_DATE |-> from_date,
                 ECF_TO_DATE |-> to_date, max_pages |-> NoMaxPages,
                 headless |-> headless]
    /\ NewJob
    /\ UNCHANGED <<dotenv, environ, config>>
    /\ UNCHANGED httpVars
    /\ UNCHANGED notRun

NextDates ==
    \/ SubmitHttpDated
    \/ SubmitCliDated
    \/ ApplyOverrides
    \/ CheckCredentials
    \/ LaunchBrowser
    \/ Login
    \/ FillAndConsult
    \/ Collect
    \/ Finish
    \/ KeyboardInterrupt
    \/ Respond

SpecDates == InitDates /\ [][NextDates]_vars

(***************************************************************************)
(* Properties of jobs with date bounds.                                    *)
(***************************************************************************)
\* The day of a date of the model, in either of its two forms
DayNumber ==
    DayOf @@ ("01/07/2025" :> 1) @@ ("30/07/2025" :> 30) @@
    ("31/07/2025" :> 31)

\* C13: when neither the caller nor the environment the process started with
\* gives a date, the Final Report path lies in
\* {output_root}/{process name}/{identifier}/ and its period token is "ALL",
\* whatever jobs ran before in the process.
C13_NoDatesGivesPeriodAll ==
    (/\ out_path # NoPath
     /\ args.ECF_FROM_DATE = Absent
     /\ args.ECF_TO_DATE = Absent
     /\ environ_at_start["ECF_FROM_DATE"] = Absent
     /\ environ_at_start["ECF_TO_DATE"] = Absent)
        => /\ out_path.dir = <<output_root, process_base, args.RUT>>
           /\ out_path.period = <<"ALL">>

\* C14: a request with both dates is answered 400, ok=false, exactly when
\* to_date < from_date or the inclusive number of days is above 30, and the
\* job is not started then; otherwise the request passes the validation.
C14_DateRangeValidation ==
    /\ [](form.from_date # "" /\ form.to_date # ""
            => LET from_day == DayNumber[form.from_date]
                   to_day == DayNumber[form.to_date]
               IN  (response.status = 400 /\ ~response.ok)
                       <=> (to_day < from_day \/ to_day - from_day + 1 > 30))
    /\ [][(response'.status = 400 /\ <<form, response>>' # <<form, response>>)
            => jobs' = jobs /\ rpc' = "idle" /\ rpc = "idle" /\ args' = args]_vars

\* C14 witness: 2025-07-01..2025-07-31 was answered 400 after a job had run.
C14_Witness ==
    /\ form.from_date = "2025-07-01"
    /\ form.to_date = "2025-07-31"
    /\ response.status = 400
    /\ jobs = 1
    /\ rpc = "idle"

\* C15: whenever authentication, filter submission or collection runs with
\* both dates set, to >= from and to - from <= 30 days, for jobs from the
\* HTTP endpoint and from the command line alike.
C15_PipelineDatesInRange ==
    (/\ rpc \in {"login", "fill", "collect", "post"}
     /\ config.ECF_FROM_DATE # ""
     /\ config.ECF_TO_DATE # "")
        => LET from_day == DayNumber[config.ECF_FROM_DATE]
               to_day == DayNumber[config.ECF_TO_DATE]
           IN  to_day >= from_day /\ to_day - from_day <= 30

(***************************************************************************)
(* login_and_continue. A text is the sequence of its characters.           *)
(***************************************************************************)
MaxFrames == 1          \* child frames of the page after the submission

clave_incorrecta ==
    <<"c", "l", "a", "v", "e", " ", "i", "n", "c", "o", "r", "r", "e",
      "c", "t", "a">>

usuario_o_clave ==
    <<"u", "s", "u", "a", "r", "i", "o", " ", "o", " ", "c", "l", "a",
      "v", "e">>

usuario_incorrecto ==
    <<"u", "s", "u", "a", "r", "i", "o", " ", "i", "n", "c", "o", "r",
      "r", "e", "c", "t", "o">>

credencial ==
    <<"c", "r", "e", "d", "e", "n", "c", "i", "a", "l">>

authentication_failed ==
    <<"a", "u", "t", "h", "e", "n", "t", "i", "c", "a", "t", "i", "o",
      "n", " ", "f", "a", "i", "l", "e", "d">>

login_failed ==
    <<"l", "o", "g", "i", "n", " ", "f", "a", "i", "l", "e", "d">>

wrong_user ==
    <<"w", "r", "o", "n", "g", " ", "u", "s", "e", "r">>

no_autorizado ==
    <<"n", "o", " ", "a", "u", "t", "o", "r", "i", "z", "a", "d", "o">>

usuario_no_encontrado ==
    <<"u", "s", "u", "a", "r", "i", "o", " ", "n", "o", " ", "e", "n",
      "c", "o", "n", "t", "r", "a", "d", "o">>

\* patterns of _page_has_auth_error
patterns ==
    {clave_incorrecta, usuario_o_clave, usuario_incorrecto,
     credencial, authentication_failed, login_failed,
     wrong_user, no_autorizado, usuario_no_encontrado}

\* Texts the portal may show after the form was submitted
text_welcome ==
    <<"B", "i", "e", "n", "v", "e", "n", "i", "d", "o">>

text_lower ==
    <<"e", "r", "r", "o", "r", ":", " ", "l", "o", "g", "i", "n", " ",
      "f", "a", "i", "l", "e", "d">>

text_mixed ==
    <<"C", "l", "a", "v", "e", " ", "i", "n", "c", "o", "r", "r", "e",
      "c", "t", "a">>

PageTexts == {<<>>, text_welcome, text_lower, text_mixed}

\* pat in text
Contains(text, pat) ==
    \E i \in 1..(Len(text) - Len(pat) + 1) :
        SubSeq(text, i, i + Len(pat) - 1) = pat

\* text[:n]
Take(text, n) == SubSeq(text, 1, IF Len(text) < n THEN Len(text) ELSE n)

\* the slice of p.inner_text()[:2000]
InnerTextLimit == 2000

\* A document (the main document or a frame): when it is not attached (page
\* closed, frame detached) every call on it raises.
AttachedDocs ==
    {[attached |-> TRUE, has_input |-> h, text |-> t] :
        h \in BOOLEAN, t \in PageTexts}

FrameLists(docs) ==
    UNION {[1..n -> docs] : n \in 0..MaxFrames}

\* The pages login_and_continue may look at after the submission: the main
\* document and its child frames; the frames of a closed page are gone too.
Doms ==
    {[main |-> m, frames |-> fs] :
        m \in AttachedDocs, fs \in FrameLists(AttachedDocs \cup {NoDoc})}
    \cup {[main |-> NoDoc, frames |-> fs] : fs \in FrameLists({NoDoc})}

\* page.frames: the main frame, then the child frames
page_frames(d) == <<d.main>> \o d.frames

\* still_has_input as lines 186-199 compute it
StillHasInput(d) ==
    IF ~d.main.attached
    THEN FALSE
    ELSE IF d.main.has_input
         THEN TRUE
         ELSE \E i \in DOMAIN page_frames(d) :
                /\ page_frames(d)[i].attached
                /\ page_frames(d)[i].has_input

\* The text _page_has_auth_error searches: the inner_text() accessor, cut and
\* lower-cased, or when it raises the innerText that evaluate returns, as it
\* is; nothing when that raises too.
TextSearched(p, accessor_raises) ==
    IF ~p.attached
    THEN <<>>
    ELSE IF accessor_raises
         THEN p.text
         ELSE Lower(Take(p.text, InnerTextLimit))

_page_has_auth_error(p, accessor_raises) ==
    LET text == TextSearched(p, accessor_raises)
    IN  /\ text # <<>>
        /\ \E pat \in patterns : Contains(text, pat)

\* err_detected as lines 225-233 compute it
ErrDetected(d, accessor_raises) ==
    \/ _page_has_auth_error(d.main, accessor_raises)
    \/ \E i \in DOMAIN page_frames(d) :
            _page_has_auth_error(page_frames(d)[i], accessor_raises)

\* A plausible slip: both signs are required.
LoginFailed_both(err, still) == err /\ still

\* if err_detected or still_has_input: raise ValueError(...)
LoginFailed(err, still) == err \/ still

InitLogin ==
    CollectAtRest /\ RunAtRest /\ HttpAtRest /\ AuthAtRest /\ HelpersAtRest

\* The login inputs are looked for on the main page, then in an iframe; when
\* they are nowhere, or the wait fails otherwise, the call raises.
LocateInputs ==
    /\ lpc = "idle"
    /\ \E found \in {"page", "frame", "nowhere", "error"} :
        IF found \in {"page", "frame"}
        THEN /\ target' = found
             /\ lpc' = "fill"
             /\ UNCHANGED raised
        ELSE /\ raised' = "Exception"
             /\ lpc' = "failed"
             /\ UNCHANGED target
    /\ UNCHANGED <<dom, inner_text_raises, still_has_input, err_detected,
                   final_page>>
    /\ UNCHANGED notLogin

\* The credentials are filled in and the form is submitted (a click that
\* fails falls back to Enter); after the pause the page is what the portal
\* made of the submission. A fill that fails raises.
FillAndSubmit ==
    /\ lpc = "fill"
    /\ \E filled \in BOOLEAN :
        IF filled
        THEN /\ dom' \in Doms
             /\ inner_text_raises' \in BOOLEAN
             /\ lpc' = "check"
             /\ UNCHANGED raised
        ELSE /\ raised' = "Exception"
             /\ lpc' = "failed"
             /\ UNCHANGED <<dom, inner_text_raises>>
    /\ UNCHANGED <<target, still_has_input, err_detected, final_page>>
    /\ UNCHANGED notLogin

\* The two checks after the submission and the raise they lead to.
Classify ==
    /\ lpc = "check"
    /\ still_has_input' = StillHasInput(dom)
    /\ err_detected' = ErrDetected(dom, inner_text_raises)
    /\ IF LoginFailed(err_detected', still_has_input')
       THEN /\ raised' = "ValueError"
            /\ lpc' = "raised"
       ELSE /\ lpc' = "wait_url"
            /\ UNCHANGED raised
    /\ UNCHANGED <<target, dom, inner_text_raises, final_page>>
    /\ UNCHANGED notLogin

\* The wait for the entity-selection URL (its result is only logged) and the
\* search for the Continue button: without one the current page is returned.
FindContinue ==
    /\ lpc = "wait_url"
    /\ \E found \in BOOLEAN :
        IF found
        THEN /\ lpc' = "continue"
             /\ UNCHANGED final_page
        ELSE /\ final_page' = "page"
             /\ lpc' = "returned"
    /\ UNCHANGED <<target, dom, inner_text_raises, still_has_input,
                   err_detected, raised>>
    /\ UNCHANGED notLogin

\* Continue is clicked: a new tab opens, or the page navigates in place, or
\* the click raises something else than a timeout.
ClickContinue ==
    /\ lpc = "continue"
    /\ \E outcome \in {"new_tab", "same_page", "error"} :
        IF outcome = "error"
        THEN /\ raised' = "Exception"
             /\ lpc' = "failed"
             /\ UNCHANGED final_page
        ELSE /\ final_page' = IF outcome = "new_tab" THEN "new_page" ELSE "page"
             /\ lpc' = "consulta"
             /\ UNCHANGED raised
    /\ UNCHANGED <<target, dom, inner_text_raises, still_has_input,
                   err_detected>>
    /\ UNCHANGED notLogin

\* The menu entry is clicked (best effort) and the call returns.
ClickConsulta ==
    /\ lpc = "consulta"
    /\ lpc' = "returned"
    /\ UNCHANGED <<target, dom, inner_text_raises, still_has_input,
                   err_detected, raised, final_page>>
    /\ UNCHANGED notLogin

NextLogin ==
    \/ LocateInputs
    \/ FillAndSubmit
    \/ Classify
    \/ FindContinue
    \/ ClickContinue
    \/ ClickConsulta

SpecLogin == InitLogin /\ [][NextLogin]_vars

(***************************************************************************)
(* Properties of login_and_continue.                                       *)
(***************************************************************************)
\* The two checks have been made and acted upon
Classified == lpc \in {"raised", "wait_url", "continue", "consulta", "returned"}

\* The main document and the frames that can be looked at
DocsOf(d) == {page_frames(d)[i] : i \in DOMAIN page_frames(d)}

\* C8: after the submission the call raises the authentication error exactly
\* when the identifier input is still present in the main document or a
\* frame, or a failure phrase is detected in the main document or a frame;
\* otherwise it goes on with the post-login steps.
C8_AuthErrorIffInputOrPhrase ==
    Classified =>
        LET input_present ==
                \E p \in DocsOf(dom) : p.attached /\ p.has_input
            phrase_detected ==
                \E p \in DocsOf(dom) : _page_has_auth_error(p, inner_text_raises)
        IN  /\ (input_present \/ phrase_detected)
                => raised = "ValueError" /\ lpc = "raised"
            /\ ~(input_present \/ phrase_detected)
                => raised = Absent /\ lpc # "raised"

\* C8 witness: the error was raised for a failure phrase that only a child
\* frame shows, the input being gone everywhere.
C8_Witness ==
    /\ lpc = "raised"
    /\ raised = "ValueError"
    /\ \A p \in DocsOf(dom) : ~p.has_input
    /\ ~_page_has_auth_error(dom.main, inner_text_raises)
    /\ \E i \in DOMAIN dom.frames :
            _page_has_auth_error(dom.frames[i], inner_text_raises)

\* C9: whenever the text of the main document or of a frame contains one of
\* the failure phrases in any mix of upper and lower case, the login is
\* classified as an authentication failure.
C9_PhraseDetectionIgnoresCase ==
    Classified =>
        ((\E p \in DocsOf(dom), pat \in patterns :
                p.attached /\ Contains(Lower(p.text), pat))
            => raised = "ValueError")

(***************************************************************************)
(* What a job writes about its credentials: the "Inputs" line of the HTTP   *)
(* handler and the "Final runtime config" lines of run. login_and_continue *)
(* prints nothing about them. A value is the sequence of its characters.   *)
(***************************************************************************)
MaxCredLen == 8         \* longest identifier or secret

\* Identifiers are digits, secrets are letters
IdentifierChars == <<"1", "2", "3", "4", "5", "6", "7", "8", "9">>
SecretChars == <<"a", "b", "c", "d", "e", "f", "g", "h", "i">>

Identifiers == {SubSeq(IdentifierChars, 1, n) : n \in 0..MaxCredLen}
Secrets == {SubSeq(SecretChars, 1, n) : n \in 0..MaxCredLen}

\* "*" * n
Stars(n) == [i \in 1..n |-> "*"]

EmptyText == <<"(", "e", "m", "p", "t", "y", ")">>

\* _mask_sensitive of app.py
_mask_sensitive(x, keep_left, keep_right) ==
    IF x = <<>>
    THEN EmptyText
    ELSE IF Len(x) <= keep_left + keep_right
         THEN Stars(Len(x))
         ELSE SubSeq(x, 1, keep_left)
                \o Stars(Len(x) - keep_left - keep_right)
                \o SubSeq(x, Len(x) - keep_right + 1, Len(x))

\* mask_secret of main.py
mask_secret(x) ==
    IF x = <<>>
    THEN EmptyText
    ELSE IF Len(x) <= 6
         THEN Stars(Len(x))
         ELSE SubSeq(x, 1, 3) \o Stars(Len(x) - 6)
                \o SubSeq(x, Len(x) - 2, Len(x))

\* x or '(empty)'
OrEmptyText(x) == IF x = <<>> THEN EmptyText ELSE x

\* A job arrives with its credentials.
InitLog ==
    /\ CollectAtRest /\ RunAtRest /\ HttpAtRest /\ AuthAtRest
    /\ ExtractAtRest /\ FechaAtRest /\ NextAtRest /\ LaterAtRest
    /\ credentials \in [identifier : Identifiers, secret : Secrets]
    /\ console = {}
    /\ lgpc \in {"http", "run"}

\* logger.info(... rut={_mask_sensitive(rut)}, clave={_mask_sensitive(clave)} ...)
LogInputs ==
    /\ lgpc = "http"
    /\ console' = console \cup {_mask_sensitive(credentials.identifier, 3, 3),
                                _mask_sensitive(credentials.secret, 3, 3)}
    /\ lgpc' = "run"
    /\ UNCHANGED credentials
    /\ UNCHANGED notLog

\* print(f"RUT = {config.RUT or '(empty)'}")
\* print(f"CLAVE = {mask_secret(config.CLAVE)}")
LogRuntimeConfig ==
    /\ lgpc = "run"
    /\ console' = console \cup {OrEmptyText(credentials.identifier),
                                mask_secret(credentials.secret)}
    /\ lgpc' = "done"
    /\ UNCHANGED credentials
    /\ UNCHANGED notLog

NextLog ==
    \/ LogInputs
    \/ LogRuntimeConfig

SpecLog == InitLog /\ [][NextLog]_vars

\* C17: no line written during a job contains the whole of an identifier or
\* secret that is longer than 6 characters.
C17_CredentialsMaskedInLogs ==
    \A line \in console :
        \A v \in {credentials.identifier, credentials.secret} :
            Len(v) > 6 => ~Contains(line, v)

(***************************************************************************)
(* _extract_fields_from_page, on two of its 23 columns: every column is    *)
(* extracted by the same loop over its own list of selectors.              *)
(***************************************************************************)
Columns == {"Razon Social", "RUT"}

mapping ==
    [col \in Columns |->
        IF col = "Razon Social"
        THEN <<"#span_vDENOMINACION", "[id*=span_vDENOMINACION]",
               ".ReadonlyAttribute#span_vDENOMINACION">>
        ELSE <<"#span_CTLEFACARCHEMISORDOCNRO",
               "[id*=CTLEFACARCHEMISORDOCNRO]">>]

Selectors == UNION {{mapping[col][i] : i \in DOMAIN mapping[col]} : col \in Columns}

\* A call on an element handle that throws
Raises == "<raises>"

\* What p.query_selector(s) comes to: it throws, finds nothing, or gives an
\* element; of an element, the tag name, the value, the inner text and the
\* text content as the calls of _try_get_text get them.
Lookup(found, tag, value, inner_text, text_content) ==
    [found |-> found, tag |-> tag, value |-> value, inner_text |-> inner_text,
     text_content |-> text_content]

\* The element of selector s shows s as its text, so that the texts of two
\* selectors differ.
LookupsOf(s) ==
    {Lookup("throws", Raises, Raises, Raises, Raises),
     Lookup("none", Raises, Raises, Raises, Raises),
     Lookup("element", "span", "", s, s),
     Lookup("element", "span", "", " ", " "),
     Lookup("element", "input", s, "", ""),
     Lookup("element", "span", "", Raises, s),
     Lookup("element", Raises, Raises, Raises, Raises)}

DetailPages == {pg \in [Selectors -> UNION {LookupsOf(s) : s \in Selectors}] :
                    \A s \in Selectors : pg[s] \in LookupsOf(s)}

\* str.strip() / trim() on the texts of the model
Strip(t) == IF t = " " THEN "" ELSE t

_try_get_text(el) ==
    LET first == IF el.tag \in {"input", "textarea"}
                 THEN el.value
                 ELSE el.inner_text
    IN  IF first # Raises
        THEN Strip(first)
        ELSE IF el.text_content # Raises THEN Strip(el.text_content) ELSE ""

\* A plausible slip: the loop over the selectors has no break.
RECURSIVE FirstText_no_break(_, _, _)
FirstText_no_break(pg, selectors, found_text) ==
    IF selectors = <<>>
    THEN found_text
    ELSE FirstText_no_break(pg, Tail(selectors),
                            IF pg[Head(selectors)].found = "element"
                            THEN _try_get_text(pg[Head(selectors)])
                            ELSE found_text)

\* The loop `for s in selectors` for one column
RECURSIVE FirstText(_, _, _)
FirstText(pg, selectors, found_text) ==
    IF selectors = <<>>
    THEN found_text
    ELSE LET el == pg[Head(selectors)]
         IN  IF el.found = "element"
             THEN IF _try_get_text(el) # ""
                  THEN _try_get_text(el)
                  ELSE FirstText(pg, Tail(selectors), _try_get_text(el))
             ELSE FirstText(pg, Tail(selectors), found_text)

_extract_fields_from_page(pg) ==
    [col \in Columns |-> FirstText(pg, mapping[col], "")]

InitExtract ==
    /\ CollectAtRest /\ RunAtRest /\ HttpAtRest /\ AuthAtRest
    /\ LogAtRest /\ FechaAtRest /\ NextAtRest /\ LaterAtRest
    /\ detail_page \in DetailPages
    /\ data = <<>>
    /\ xpc = "called"

\* data = _extract_fields_from_page(extraction_target)
ExtractFields ==
    /\ xpc = "called"
    /\ data' = _extract_fields_from_page(detail_page)
    /\ xpc' = "returned"
    /\ UNCHANGED detail_page
    /\ UNCHANGED notExtract

NextExtract == ExtractFields

SpecExtract == InitExtract /\ [][NextExtract]_vars

\* The selector yields non-empty text: it matches an element and one of the
\* reads that apply to the element gives text that is not blank
YieldsText(l) ==
    /\ l.found = "element"
    /\ \/ l.tag \in {"input", "textarea"} /\ l.value \notin {Raises, "", " "}
       \/ l.tag \notin {"input", "textarea"} /\ l.inner_text \notin {Raises, "", " "}
       \/ /\ (IF l.tag \in {"input", "textarea"} THEN l.value ELSE l.inner_text) = Raises
          /\ l.text_content \notin {Raises, "", " "}

\* C18: the call returns every column; a column none of whose selectors
\* yields text is the empty string, and every other column is the text of
\* the first of its selectors that yields text, whatever the other columns do.
C18_ExtractionDegradesPerColumn ==
    xpc = "returned" =>
        /\ DOMAIN data = Columns
        /\ \A col \in Columns :
            LET yielding == {i \in DOMAIN mapping[col] :
                                YieldsText(detail_page[mapping[col][i]])}
            IN  IF yielding = {}
                THEN data[col] = ""
                ELSE \E i \in yielding :
                        /\ \A j \in yielding : i <= j
                        /\ data[col] = mapping[col][i]

\* C18 witness: every selector of RUT fails, each in another way, and Razon
\* Social is the text of its third selector, the first throwing and the
\* second showing blank text.
C18_Witness ==
    /\ xpc = "returned"
    /\ detail_page["#span_CTLEFACARCHEMISORDOCNRO"].found = "throws"
    /\ detail_page["[id*=CTLEFACARCHEMISORDOCNRO]"].found = "none"
    /\ data["RUT"] = ""
    /\ detail_page["#span_vDENOMINACION"].found = "throws"
    /\ detail_page["[id*=span_vDENOMINACION]"].inner_text = " "
    /\ data["Razon Social"] = ".ReadonlyAttribute#span_vDENOMINACION"

(***************************************************************************)
(* _sanitize_fecha_emision, on texts kept as sequences of characters.      *)
(***************************************************************************)
MaxFechaLen == 7

Whitespace == {" "}

FechaChars == {"0", "Z"} \cup Whitespace

RECURSIVE TextsUpTo(_)
TextsUpTo(n) ==
    IF n = 0
    THEN {<<>>}
    ELSE TextsUpTo(n - 1) \cup
         {Append(t, ch) : t \in {u \in TextsUpTo(n - 1) : Len(u) = n - 1},
                          ch \in FechaChars}

RECURSIVE LStripWs(_)
LStripWs(t) == IF t # <<>> /\ Head(t) \in Whitespace THEN LStripWs(Tail(t)) ELSE t

RECURSIVE RStripWs(_)
RStripWs(t) ==
    IF t # <<>> /\ t[Len(t)] \in Whitespace
    THEN RStripWs(SubSeq(t, 1, Len(t) - 1))
    ELSE t

\* str.strip()
StripWs(t) == RStripWs(LStripWs(t))

\* A plausible slip: one character cut, as the final report does.
_sanitize_fecha_emision_cut_1(value) ==
    IF value = <<>>
    THEN <<>>
    ELSE LET v == StripWs(value)
         IN  IF Len(v) > 5 THEN SubSeq(v, 1, Len(v) - 1) ELSE <<>>

_sanitize_fecha_emision(value) ==
    IF value = <<>>
    THEN <<>>
    ELSE LET v == StripWs(value)
         IN  IF Len(v) > 5 THEN SubSeq(v, 1, Len(v) - 5) ELSE <<>>

InitFecha ==
    /\ CollectAtRest /\ RunAtRest /\ HttpAtRest /\ AuthAtRest
    /\ LogAtRest /\ ExtractAtRest /\ NextAtRest /\ LaterAtRest
    /\ fecha_value \in TextsUpTo(MaxFechaLen)
    /\ fecha_result = <<>>
    /\ fpc = "called"

Sanitize ==
    /\ fpc = "called"
    /\ fecha_result' = _sanitize_fecha_emision(fecha_value)
    /\ fpc' = "returned"
    /\ UNCHANGED fecha_value
    /\ UNCHANGED notFecha

NextFecha == Sanitize

SpecFecha == InitFecha /\ [][NextFecha]_vars

\* C19: the sanitized value is empty when the input has at most 5
\* characters, and the input without its last 5 characters otherwise.
C19_SanitizeCutsLastFive ==
    fpc = "returned" =>
        fecha_result = IF Len(fecha_value) <= 5
                       THEN <<>>
                       ELSE SubSeq(fecha_value, 1, Len(fecha_value) - 5)

\* C19, amended: with v the input without its leading and trailing
\* whitespace, the sanitized value is empty when v has at most 5 characters,
\* and v without its last 5 characters otherwise.
C19_SanitizeCutsLastFiveOfStripped ==
    fpc = "returned" =>
        LET v == StripWs(fecha_value)
        IN  fecha_result = IF Len(v) <= 5
                           THEN <<>>
                           ELSE SubSeq(v, 1, Len(v) - 5)

\* C19 witness: an input with whitespace around it that is longer than 5
\* characters once stripped
C19_Witness ==
    /\ fpc = "returned"
    /\ StripWs(fecha_value) # fecha_value
    /\ Len(StripWs(fecha_value)) > 5
    /\ fecha_result # <<>>

(***************************************************************************)
(* click_next_only.  What a candidate selector finds, and how the click on *)
(* what it finds ends, is the portal's answer at the moment of the lookup. *)
(***************************************************************************)
candidates ==
    <<"input#W0127SIGUIENTE",
      "input[name=W0127SIGUIENTE]",
      "input.Image[id=W0127SIGUIENTE]",
      "input.Image[src*=K2BPageNext.png]",
      "input[src*=K2BPageNext.png]",
      "img[src*=K2BPageNext.png]",
      "button[title*=Sig]",
      "a[title*=Sig]",
      "button:has-text(Siguiente)",
      "a:has-text(Siguiente)">>

\* absent: _find_element_in_page_and_frames gives (None, None);
\* click_ok: el.click() returns; js_click_ok: el.click() throws and the
\* evaluate of el.click() returns; click_fails: both throw.
NextControlOutcomes == {"absent", "click_ok", "js_click_ok", "click_fails"}

ClickDispatched(o) == o \in {"click_ok", "js_click_ok"}

\* A plausible slip: no break after the click.
LoopGoesOn_no_break(clicked_now, q) == q <= Len(candidates)

\* The `for sel_q in candidates` with its break
LoopGoesOn(clicked_now, q) == ~clicked_now /\ q <= Len(candidates)

InitNext ==
    /\ CollectAtRest /\ RunAtRest /\ HttpAtRest /\ AuthAtRest
    /\ LogAtRest /\ ExtractAtRest /\ FechaAtRest /\ LaterAtRest
    /\ next_controls = <<>>
    /\ sel_q = 1
    /\ attempts = <<>>
    /\ dispatched = <<>>
    /\ next_clicked = FALSE
    /\ npc = "loop"

\* One turn of the loop
TryCandidate ==
    /\ npc = "loop"
    /\ LoopGoesOn(next_clicked, sel_q)
    /\ \E o \in NextControlOutcomes :
        /\ next_controls' = Append(next_controls, o)
        /\ attempts' = Append(attempts, candidates[sel_q])
        /\ IF ClickDispatched(o)
           THEN /\ dispatched' = Append(dispatched, candidates[sel_q])
                /\ next_clicked' = TRUE
           ELSE UNCHANGED <<dispatched, next_clicked>>
    /\ sel_q' = sel_q + 1
    /\ UNCHANGED npc
    /\ UNCHANGED notNext

\* After the loop: the debug dump when nothing was clicked, and the return
ReturnClicked ==
    /\ npc = "loop"
    /\ ~LoopGoesOn(next_clicked, sel_q)
    /\ npc' = "returned"
    /\ UNCHANGED <<next_controls, sel_q, attempts, dispatched, next_clicked>>
    /\ UNCHANGED notNext

NextNext == TryCandidate \/ ReturnClicked

SpecNext == InitNext /\ [][NextNext]_vars

\* C20: the candidates are looked up in the order of the list; every
\* candidate looked up before the last one was absent or failed to click, so
\* nothing is tried after a click went through; at most one click goes
\* through; the call returns true exactly when one did, and false only after
\* the whole list was tried.
C20_NextClickStopsAtFirstSuccess ==
    /\ attempts = SubSeq(candidates, 1, Len(attempts))
    /\ Len(next_controls) = Len(attempts)
    /\ \A i \in 1..(Len(next_controls) - 1) : ~ClickDispatched(next_controls[i])
    /\ dispatched = IF next_controls # <<>> /\ ClickDispatched(next_controls[Len(next_controls)])
                    THEN <<candidates[Len(next_controls)]>>
                    ELSE <<>>
    /\ npc \in {"idle", "loop", "returned"}
    /\ npc = "returned" =>
        /\ next_clicked = (\E i \in DOMAIN next_controls : ClickDispatched(next_controls[i]))
        /\ ~next_clicked => Len(attempts) = Len(candidates)

\* C20 witness: the first candidate is absent, the second is found and fails
\* to click, the third is clicked through the script fallback, and the call
\* returns true with seven candidates never looked up.
C20_Witness ==
    /\ npc = "returned"
    /\ next_clicked
    /\ next_controls = <<"absent", "click_fails", "js_click_ok">>
    /\ dispatched = <<candidates[3]>>

(***************************************************************************)
(* process_and_save_current_page, candidate by candidate: one call on one  *)
(* result page, with the order of its candidates, what became of each and  *)
(* what the main page handle displays.                                     *)
(***************************************************************************)
\* The candidate lists _collect_candidate_urls can return: no text twice
CandidateLists ==
    {<<>>} \cup
    UNION {{l \in [1..n -> DetailUrls] : \A i, j \in 1..n : l[i] = l[j] => i = j}
              : n \in 1..MaxCandidates}

\* How a candidate URL is opened: by window.open from the main page, by a new
\* page of the context, by navigating the main page itself; or not at all; or
\* with an exception on the way that the try around the iteration catches.
PageOpenStrategies == {"window_open", "new_page", "in_place"}
PageOpenFailures == {"open_failed", "raised"}

Visit(how, appended) == [how |-> how, appended |-> appended]

\* The candidate did not get its record
FailedVisit(v) == v.how # "skipped" /\ ~v.appended

\* A plausible slip: the URL is marked whether or not the append went through.
ProcessedAfterAppend_always(appended, canon) == pg_processed \cup {canon}

\* _append_row_to_csv(...); processed.add(canon) inside one try
ProcessedAfterAppend(appended, canon) ==
    IF appended THEN pg_processed \cup {canon} ELSE pg_processed

\* A plausible slip: the first failure ends the loop over the candidates.
AfterVisit_breaks(v) == IF FailedVisit(v) THEN Len(pg_urls) + 1 ELSE pg_idx + 1

\* `continue`, or the end of the loop body: the next candidate
AfterVisit(v) == pg_idx + 1

\* page.goto(url) on the main page puts the document there; a new tab does not
MainAfterOpen(how) == IF how = "in_place" THEN "detail" ELSE pg_main

InitPage ==
    /\ EarlierAtRest /\ SearchAtRest /\ ReportAtRest
    /\ ExportAtRest /\ FiltersAtRest
    /\ pg_urls \in CandidateLists
    /\ pg_idx = 1
    /\ pg_opened = <<>>
    /\ pg_seed \in SUBSET {_canonicalize_url(u) : u \in DetailUrls}
    /\ pg_processed = pg_seed
    /\ pg_csv = <<>>
    /\ pg_main = "grid"
    /\ pg_new_rows = 0
    /\ pg_fallback \in IF pg_urls = <<>> THEN 0..MaxCandidates ELSE {0}
    /\ ppc = "url_loop"

\* One iteration of `for idx, url in enumerate(urls, start=1)`
VisitCandidate ==
    /\ ppc = "url_loop"
    /\ pg_idx <= Len(pg_urls)
    /\ LET url == pg_urls[pg_idx]
           canon == _canonicalize_url(url)
       IN  \E v \in {Visit("skipped", FALSE)}
                    \cup {Visit(how, FALSE) : how \in PageOpenFailures}
                    \cup {Visit(how, a) : how \in PageOpenStrategies, a \in BOOLEAN} :
            /\ (v.how = "skipped") = (canon \in pg_processed)
            /\ pg_opened' = Append(pg_opened, v)
            /\ pg_main' = MainAfterOpen(v.how)
            /\ pg_csv' = IF v.appended THEN Append(pg_csv, ExtractedRow(url)) ELSE pg_csv
            /\ pg_processed' = IF v.how \in PageOpenStrategies
                               THEN ProcessedAfterAppend(v.appended, canon)
                               ELSE pg_processed
            /\ pg_new_rows' = IF v.appended THEN pg_new_rows + 1 ELSE pg_new_rows
            /\ pg_idx' = AfterVisit(v)
    /\ UNCHANGED <<pg_urls, pg_seed, pg_fallback, ppc>>
    /\ UNCHANGED notPage

\* One iteration of the loop over the fallback elements, entered when the
\* URLs gave no new row
ClickFallbackElement ==
    /\ ppc = "url_loop"
    /\ pg_idx > Len(pg_urls)
    /\ pg_fallback > 0
    /\ \E outcome \in ClickOutcomes, src_url \in DetailUrls :
        LET canon == _canonicalize_url(src_url)
            opened == outcome # "click_failed"
            appended == outcome \in {"new_tab", "in_place"} /\ canon \notin pg_processed
        IN  /\ pg_main' = IF outcome = "in_place" THEN "detail" ELSE pg_main
            /\ pg_csv' = IF appended THEN Append(pg_csv, ExtractedRow(src_url)) ELSE pg_csv
            /\ pg_processed' = IF opened /\ canon \notin pg_processed
                               THEN ProcessedAfterAppend(appended, canon)
                               ELSE pg_processed
            /\ pg_new_rows' = IF appended THEN pg_new_rows + 1 ELSE pg_new_rows
    /\ pg_fallback' = pg_fallback - 1
    /\ UNCHANGED <<pg_urls, pg_idx, pg_opened, pg_seed, ppc>>
    /\ UNCHANGED notPage

\* The call returns new_rows; the orchestrator goes on to the export and the
\* pagination on the same page handle.
ReturnNewRows ==
    /\ ppc = "url_loop"
    /\ pg_idx > Len(pg_urls)
    /\ pg_fallback = 0
    /\ ppc' = "returned"
    /\ UNCHANGED <<pg_urls, pg_idx, pg_opened, pg_processed, pg_seed, pg_csv,
                   pg_main, pg_new_rows, pg_fallback>>
    /\ UNCHANGED notPage

NextPage == VisitCandidate \/ ClickFallbackElement \/ ReturnNewRows

SpecPage == InitPage /\ [][NextPage]_vars

\* C22: a candidate that could not be opened, or whose record could not be
\* appended, ends its iteration without ending the loop, and leaves the
\* Processed Set and result.csv as they were; the loop is left only after
\* the last candidate, and when the call returns every candidate has been
\* visited and those that were skipped are in the Processed Set.
C22_PerDocumentIsolation ==
    /\ [][(Len(pg_opened') = Len(pg_opened) + 1
                /\ FailedVisit(pg_opened'[Len(pg_opened')]))
            => /\ ppc' = "url_loop"
               /\ pg_idx' = pg_idx + 1
               /\ pg_processed' = pg_processed
               /\ pg_csv' = pg_csv]_vars
    /\ [](ppc = "returned" =>
            /\ Len(pg_opened) = Len(pg_urls)
            /\ \A j \in DOMAIN pg_opened :
                pg_opened[j].how = "skipped"
                    => _canonicalize_url(pg_urls[j]) \in pg_processed)

\* C22 witness: the first candidate failed to open and the second, not yet
\* processed, was opened and got its record.
C22_Witness ==
    /\ ppc = "returned"
    /\ Len(pg_opened) = 2
    /\ pg_opened[1].how \in PageOpenFailures
    /\ pg_opened[2].how \in PageOpenStrategies
    /\ pg_opened[2].appended
    /\ _canonicalize_url(pg_urls[1]) \notin pg_processed

\* C25: every canonical URL in the Processed Set was loaded from disk when
\* the run started or is the URL of a record appended to result.csv, a URL
\* whose append failed is not marked, and the Processed Set never shrinks.
C25_ProcessedOnlyAfterAppend ==
    /\ [](pg_processed \subseteq
            pg_seed \cup {_canonicalize_url(pg_csv[i].h_source_url) : i \in DOMAIN pg_csv})
    /\ [][pg_processed \subseteq pg_processed']_vars

\* C25 witness: one candidate was opened and its append failed, so it is not
\* marked, and another was appended and is marked without having been seeded.
C25_Witness ==
    /\ ppc = "returned"
    /\ \E i, j \in DOMAIN pg_opened :
        /\ pg_opened[i].how \in PageOpenStrategies
        /\ ~pg_opened[i].appended
        /\ _canonicalize_url(pg_urls[i]) \notin pg_processed
        /\ pg_opened[j].appended
        /\ _canonicalize_url(pg_urls[j]) \in pg_processed \ pg_seed

\* C28: when process_and_save_current_page has returned and the orchestrator
\* goes on to the export and the pagination, the main page handle displays
\* the results grid.
C28_MainPageStaysOnGrid ==
    ppc = "returned" => pg_main = "grid"

(***************************************************************************)
(* fill_cfe_and_consult: the filter fields are set, then Consultar is      *)
(* clicked, under up to three ways of waiting for the result.              *)
(***************************************************************************)
\* One call of _click_maybe_in_frames on Consultar: under which wait it was
\* made, whether a click went through (on the page or in a frame), and
\* whether the wait saw what it waits for before its timeout.
ConsultarClick(waiting, clicked, observed) ==
    [waiting |-> waiting, clicked |-> clicked, observed |-> observed]

\* The clicks on Consultar that went through
ClicksDispatched == {i \in DOMAIN sq_clicks : sq_clicks[i].clicked}

InitSearch ==
    /\ EarlierAtRest /\ PageAtRest /\ ReportAtRest
    /\ ExportAtRest /\ FiltersAtRest
    /\ sq_dates \in SUBSET {"from", "to"}
    /\ sq_filled = {}
    /\ sq_clicks = <<>>
    /\ sq_final = "none"
    /\ sqpc = "tipo"

\* The select of the document type: found and set, found and not set, not
\* found; or an exception, which the outer except re-raises.
SetTipo ==
    /\ sqpc = "tipo"
    /\ \E o \in {"set", "not_set", "not_found", "raises"} :
        /\ sq_filled' = IF o = "set" THEN sq_filled \cup {"tipo"} ELSE sq_filled
        /\ sqpc' = IF o = "raises" THEN "raised" ELSE "from"
    /\ UNCHANGED <<sq_dates, sq_clicks, sq_final>>
    /\ UNCHANGED notSearch

\* if d_from: the input is looked up and, when found, filled
SetDateFrom ==
    /\ sqpc = "from"
    /\ \E filled \in IF "from" \in sq_dates THEN BOOLEAN ELSE {FALSE} :
        sq_filled' = IF filled THEN sq_filled \cup {"from"} ELSE sq_filled
    /\ sqpc' = "to"
    /\ UNCHANGED <<sq_dates, sq_clicks, sq_final>>
    /\ UNCHANGED notSearch

\* if d_to: the same for the other date
SetDateTo ==
    /\ sqpc = "to"
    /\ \E filled \in IF "to" \in sq_dates THEN BOOLEAN ELSE {FALSE} :
        sq_filled' = IF filled THEN sq_filled \cup {"to"} ELSE sq_filled
    /\ sqpc' = "click_nav"
    /\ UNCHANGED <<sq_dates, sq_clicks, sq_final>>
    /\ UNCHANGED notSearch

\* with page.expect_navigation(timeout=30000): click. The block ends well
\* when the click went through and the main page navigated; a click that did
\* not go through, and a navigation not seen in time, both raise.
ClickExpectingNavigation ==
    /\ sqpc = "click_nav"
    /\ \E clicked \in BOOLEAN, navigated \in BOOLEAN :
        /\ navigated => clicked
        /\ sq_clicks' = Append(sq_clicks,
                               ConsultarClick("expect_navigation", clicked, navigated))
        /\ IF navigated
           THEN sq_final' = "page" /\ sqpc' = "returned"
           ELSE sq_final' = sq_final /\ sqpc' = "click_tab"
    /\ UNCHANGED <<sq_dates, sq_filled>>
    /\ UNCHANGED notSearch

\* except: with page.context.expect_page(timeout=5000): click
ClickExpectingPage ==
    /\ sqpc = "click_tab"
    /\ \E clicked \in BOOLEAN, opened \in BOOLEAN :
        /\ opened => clicked
        /\ sq_clicks' = Append(sq_clicks,
                               ConsultarClick("expect_page", clicked, opened))
        /\ IF opened
           THEN sq_final' = "new_page" /\ sqpc' = "returned"
           ELSE sq_final' = sq_final /\ sqpc' = "click_plain"
    /\ UNCHANGED <<sq_dates, sq_filled>>
    /\ UNCHANGED notSearch

\* except: the click without a wait around it, then wait_for_load_state
ClickPlain ==
    /\ sqpc = "click_plain"
    /\ \E clicked \in BOOLEAN, idle \in BOOLEAN :
        /\ idle => clicked
        /\ sq_clicks' = Append(sq_clicks, ConsultarClick("none", clicked, idle))
    /\ sq_final' = "page"
    /\ sqpc' = "returned"
    /\ UNCHANGED <<sq_dates, sq_filled>>
    /\ UNCHANGED notSearch

NextSearch ==
    \/ SetTipo
    \/ SetDateFrom
    \/ SetDateTo
    \/ ClickExpectingNavigation
    \/ ClickExpectingPage
    \/ ClickPlain

SpecSearch == InitSearch /\ [][NextSearch]_vars

\* C27: one call clicks Consultar at most once, whether the main page
\* navigates, a new tab opens, or nothing is seen within the timeouts.
C27_ConsultarClickedAtMostOnce ==
    Cardinality(ClicksDispatched) <= 1

(***************************************************************************)
(* The spreadsheets written from result.csv: the intermediate result.xlsx  *)
(* at the end of each page and the Final Report at the end of the run.     *)
(* Rows are reduced to the issue date and the provenance column.           *)
(***************************************************************************)
MaxReportRows == 2

\* An issue date as result.csv holds it; the texts start with a letter, so
\* that pd.read_csv reads the column back as text.
fecha_sample == <<"J", "u", "l", "/", "2", "5", "Z", "z">>

ReportFechas == {Take(fecha_sample, n) : n \in 0..MaxFechaLen}

CsvRows == [Fecha : ReportFechas, h_source_url : {u1, u2}]

CsvFiles == UNION {[1..n -> CsvRows] : n \in 0..MaxReportRows}

\* lambda s: s[:-5] if len(s) > 5 else "", of the intermediate spreadsheet
CheckpointTrim(t) == IF Len(t) > 5 THEN SubSeq(t, 1, Len(t) - 5) ELSE <<>>

\* lambda s: s[:-1] if len(s) > 5 else "", of the Final Report
FinalTrim(t) == IF Len(t) > 5 THEN SubSeq(t, 1, Len(t) - 1) ELSE <<>>

InitReport ==
    /\ EarlierAtRest /\ PageAtRest /\ SearchAtRest
    /\ ExportAtRest /\ FiltersAtRest
    /\ rp_csv \in CsvFiles
    /\ rp_result_xlsx = <<>>
    /\ rp_apertura = <<>>
    /\ rppc = "page_done"

\* The end of process_and_save_current_page for the last page: result.xlsx
\* is rewritten from result.csv, best effort.
WriteIntermediate ==
    /\ rppc = "page_done"
    /\ \E saved \in BOOLEAN :
        rp_result_xlsx' =
            IF saved
            THEN [i \in DOMAIN rp_csv |->
                     [Fecha |-> CheckpointTrim(rp_csv[i].Fecha),
                      h_source_url |-> rp_csv[i].h_source_url]]
            ELSE rp_result_xlsx
    /\ rppc' = "loop_done"
    /\ UNCHANGED <<rp_csv, rp_apertura>>
    /\ UNCHANGED notReport

\* The end of collect_cfe_from_links: the Final Report is written from
\* result.csv without h_source_url.
WriteFinalReport ==
    /\ rppc = "loop_done"
    /\ \E saved \in BOOLEAN :
        rp_apertura' =
            IF saved
            THEN [i \in DOMAIN rp_csv |-> [Fecha |-> FinalTrim(rp_csv[i].Fecha)]]
            ELSE rp_apertura
    /\ rppc' = "returned"
    /\ UNCHANGED <<rp_csv, rp_result_xlsx>>
    /\ UNCHANGED notReport

NextReport == WriteIntermediate \/ WriteFinalReport

SpecReport == InitReport /\ [][NextReport]_vars

\* C24: the Final Report has one row per row of result.csv, none with the
\* provenance column, and each issue date is the one of result.csv with its
\* last 5 characters removed (blank when it has at most 5), which is also
\* what the intermediate spreadsheet holds.
C24_FinalReportTrimsIssueDate ==
    (rppc = "returned" /\ rp_apertura # <<>>) =>
        /\ Len(rp_apertura) = Len(rp_csv)
        /\ \A i \in DOMAIN rp_apertura :
            /\ DOMAIN rp_apertura[i] = {"Fecha"}
            /\ rp_apertura[i].Fecha = CheckpointTrim(rp_csv[i].Fecha)
            /\ rp_result_xlsx # <<>>
                => rp_apertura[i].Fecha = rp_result_xlsx[i].Fecha

(***************************************************************************)
(* export_xls_and_save. The fallback capture path runs two threads: the    *)
(* foreground, and a thread that waits for the download event. Nothing     *)
(* orders their steps but thread start and join, so every interleaving of  *)
(* the two is a behaviour.                                                 *)
(***************************************************************************)
\* The selectors tried for the export control, the last one after the loop
ExportSelectors ==
    <<"sel.EXPORT_XLS_BY_NAME", "sel.EXPORT_XLS_BY_ID", "sel.EXPORT_XLS_IMG",
      "input[name=EXPORTXLS]", "input#EXPORTXLS", "img[src*=xls22.png]">>

NoDownloadResult == [download |-> "None", error |-> "None"]

InitExport ==
    /\ EarlierAtRest /\ PageAtRest /\ SearchAtRest
    /\ ReportAtRest /\ FiltersAtRest
    /\ ex_selector = "none"
    /\ ex_preferred = "none"
    /\ ex_fg = "find"
    /\ ex_waiter = "not_started"
    /\ ex_click = "none"
    /\ ex_event = "none"
    /\ ex_deadline = FALSE
    /\ download_result = NoDownloadResult
    /\ ex_read = "none"
    /\ ex_saved = "unset"

\* The export control is looked up; without it the call returns None.
FindExportControl ==
    /\ ex_fg = "find"
    /\ \E s \in {"none"} \cup {ExportSelectors[i] : i \in DOMAIN ExportSelectors} :
        /\ ex_selector' = s
        /\ IF s = "none"
           THEN ex_fg' = "returned" /\ ex_saved' = "None"
           ELSE ex_fg' = "expect_download" /\ ex_saved' = ex_saved
    /\ UNCHANGED <<ex_preferred, ex_waiter, ex_click, ex_event, ex_deadline,
                   download_result, ex_read>>
    /\ UNCHANGED notExport

\* The preferred path, with page.expect_download(): the download is saved,
\* or the click fails and None is returned, or the attempt raises (the API
\* is missing, the download does not come, the save fails) and the call
\* goes on to the fallback.
ExpectDownload ==
    /\ ex_fg = "expect_download"
    /\ \E o \in {"saved", "click_failed", "attribute_error", "failed"} :
        /\ ex_preferred' = o
        /\ CASE o = "saved" -> ex_fg' = "returned" /\ ex_saved' = "path"
             [] o = "click_failed" -> ex_fg' = "returned" /\ ex_saved' = "None"
             [] OTHER -> ex_fg' = "start_waiter" /\ ex_saved' = ex_saved
    /\ UNCHANGED <<ex_selector, ex_waiter, ex_click, ex_event, ex_deadline,
                   download_result, ex_read>>
    /\ UNCHANGED notExport

\* waiter = threading.Thread(...); waiter.start()
StartWaiter ==
    /\ ex_fg = "start_waiter"
    /\ ex_fg' = "sleep"
    /\ ex_waiter' = "started"
    /\ UNCHANGED <<ex_selector, ex_preferred, ex_click, ex_event, ex_deadline,
                   download_result, ex_read, ex_saved>>
    /\ UNCHANGED notExport

\* time.sleep(0.05): time passes for the foreground, whatever the thread did
SleepGrace ==
    /\ ex_fg = "sleep"
    /\ ex_fg' = "click"
    /\ UNCHANGED <<ex_selector, ex_preferred, ex_waiter, ex_click, ex_event,
                   ex_deadline, download_result, ex_read, ex_saved>>
    /\ UNCHANGED notExport

\* The thread enters ctx.wait_for_event('download'), which registers the
\* listener, or raises at once.
WaiterListens ==
    /\ ex_waiter = "started"
    /\ \E registered \in BOOLEAN :
        IF registered
        THEN ex_waiter' = "listening" /\ download_result' = download_result
        ELSE /\ ex_waiter' = "finished"
             /\ download_result' = [download_result EXCEPT !.error = "error"]
    /\ UNCHANGED <<ex_selector, ex_preferred, ex_fg, ex_click, ex_event,
                   ex_deadline, ex_read, ex_saved>>
    /\ UNCHANGED notExport

\* The click of the fallback path; when it cannot be made the call returns
\* None after a short join.
ClickExport ==
    /\ ex_fg = "click"
    /\ \E clicked \in BOOLEAN :
        IF clicked
        THEN ex_click' = "dispatched" /\ ex_fg' = "join" /\ ex_saved' = ex_saved
        ELSE ex_click' = "failed" /\ ex_fg' = "returned" /\ ex_saved' = "None"
    /\ UNCHANGED <<ex_selector, ex_preferred, ex_waiter, ex_event, ex_deadline,
                   download_result, ex_read>>
    /\ UNCHANGED notExport

\* The browser starts the download the click asked for: the event goes to
\* the listener if there is one at that moment.
BrowserDownload ==
    /\ ex_click = "dispatched"
    /\ ex_event = "none"
    /\ IF ex_waiter = "listening"
       THEN /\ ex_event' = "captured"
            /\ download_result' = [download_result EXCEPT !.download = "d"]
            /\ ex_waiter' = "finished"
       ELSE /\ ex_event' = "missed"
            /\ UNCHANGED <<download_result, ex_waiter>>
    /\ UNCHANGED <<ex_selector, ex_preferred, ex_fg, ex_click, ex_deadline,
                   ex_read, ex_saved>>
    /\ UNCHANGED notExport

\* wait_for_event reaches its timeout
WaiterTimesOut ==
    /\ ex_waiter = "listening"
    /\ ex_waiter' = "finished"
    /\ download_result' = [download_result EXCEPT !.error = "timeout"]
    /\ UNCHANGED <<ex_selector, ex_preferred, ex_fg, ex_click, ex_event,
                   ex_deadline, ex_read, ex_saved>>
    /\ UNCHANGED notExport

\* The timeout of waiter.join passes
JoinDeadline ==
    /\ ex_fg = "join"
    /\ ~ex_deadline
    /\ ex_deadline' = TRUE
    /\ UNCHANGED <<ex_selector, ex_preferred, ex_fg, ex_waiter, ex_click,
                   ex_event, download_result, ex_read, ex_saved>>
    /\ UNCHANGED notExport

\* waiter.join(timeout=...) returns, and download_result is read
JoinAndRead ==
    /\ ex_fg = "join"
    /\ ex_waiter = "finished" \/ ex_deadline
    /\ ex_read' = IF download_result.error # "None"
                  THEN "error"
                  ELSE IF download_result.download = "None"
                       THEN "no_download"
                       ELSE "download"
    /\ IF ex_read' = "download"
       THEN ex_fg' = "save" /\ ex_saved' = ex_saved
       ELSE ex_fg' = "returned" /\ ex_saved' = "None"
    /\ UNCHANGED <<ex_selector, ex_preferred, ex_waiter, ex_click, ex_event,
                   ex_deadline, download_result>>
    /\ UNCHANGED notExport

\* download_obj.save_as(dest)
SaveDownload ==
    /\ ex_fg = "save"
    /\ \E saved \in BOOLEAN : ex_saved' = IF saved THEN "path" ELSE "None"
    /\ ex_fg' = "returned"
    /\ UNCHANGED <<ex_selector, ex_preferred, ex_waiter, ex_click, ex_event,
                   ex_deadline, download_result, ex_read>>
    /\ UNCHANGED notExport

NextExport ==
    \/ FindExportControl
    \/ ExpectDownload
    \/ StartWaiter
    \/ SleepGrace
    \/ WaiterListens
    \/ ClickExport
    \/ BrowserDownload
    \/ WaiterTimesOut
    \/ JoinDeadline
    \/ JoinAndRead
    \/ SaveDownload

SpecExport == InitExport /\ [][NextExport]_vars

\* C26: in the fallback path the listener is registered when the click is
\* dispatched, so the download the click triggers is never missed, and the
\* foreground reads download_result only once the thread has finished or the
\* join deadline has passed.
C26_ListenerRegisteredBeforeClick ==
    /\ [][(ex_click # "dispatched" /\ ex_click' = "dispatched")
            => ex_waiter = "listening"]_vars
    /\ [](ex_event # "missed")
    /\ [][(ex_read = "none" /\ ex_read' # "none")
            => (ex_waiter = "finished" \/ ex_deadline)]_vars

(***************************************************************************)
(* Runs of collect_cfe_from_links for one identifier under several         *)
(* filters. All of them use the directory of the identifier: one           *)
(* result.csv, and one Final Report per period.                            *)
(***************************************************************************)
\* The filters a run can be given: document type and dates
Filters ==
    [RUT : {CallerValue(1)}, ECF_TIPO : {"111", "101"},
     ECF_FROM_DATE : {"", "01/07/2025"}, ECF_TO_DATE : {"", "30/07/2025"}]

Periods == {ReportPath(f).period : f \in Filters}

\* The row appended for the document at `url`, with the filter it was
\* extracted under
FilteredRow(url, f) ==
    [Numero |-> DocOf(url), h_source_url |-> url, filter |-> f]

\* final_df.drop(columns=["h_source_url"])
FinalRows(rows) ==
    [i \in DOMAIN rows |-> [Numero |-> rows[i].Numero, filter |-> rows[i].filter]]

InitFilters ==
    /\ EarlierAtRest /\ PageAtRest /\ SearchAtRest
    /\ ReportAtRest /\ ExportAtRest
    /\ fl_filter = NoFilter
    /\ fl_csv = <<>>
    /\ fl_processed = {}
    /\ fl_reports = [p \in Periods |-> <<>>]
    /\ fl_result_path = <<>>
    /\ fl_runs = 0
    /\ flpc = "idle"

\* A run starts under a filter: rut_dir comes from the RUT alone, and the
\* Processed Set is loaded from the result.csv found there (a Final Report
\* has no h_source_url column to load from).
StartFilteredRun ==
    /\ flpc = "idle"
    /\ fl_runs < MaxRuns
    /\ \E f \in Filters : fl_filter' = f
    /\ fl_processed' = SeedFrom(fl_csv # <<>>, cols_order, fl_csv)
    /\ fl_result_path' = <<>>
    /\ fl_runs' = fl_runs + 1
    /\ flpc' = "pages"
    /\ UNCHANGED <<fl_csv, fl_reports>>
    /\ UNCHANGED notFilters

\* A document of the grid is opened and its record appended
AppendFilteredRow ==
    /\ flpc = "pages"
    /\ \E url \in DetailUrls :
        /\ ~(_canonicalize_url(url) \in fl_processed)
        /\ fl_csv' = Append(fl_csv, FilteredRow(url, fl_filter))
        /\ fl_processed' = fl_processed \cup {_canonicalize_url(url)}
    /\ UNCHANGED <<fl_filter, fl_reports, fl_result_path, fl_runs, flpc>>
    /\ UNCHANGED notFilters

\* The Final Report of the period is written from the whole result.csv
WriteFilteredReport ==
    /\ flpc = "pages"
    /\ \E written \in BOOLEAN :
        IF written
        THEN /\ fl_reports' = [fl_reports EXCEPT
                                 ![ReportPath(fl_filter).period] = FinalRows(fl_csv)]
             /\ fl_result_path' = ReportPath(fl_filter).period
        ELSE UNCHANGED <<fl_reports, fl_result_path>>
    /\ flpc' = "idle"
    /\ UNCHANGED <<fl_filter, fl_csv, fl_processed, fl_runs>>
    /\ UNCHANGED notFilters

NextFilters == StartFilteredRun \/ AppendFilteredRow \/ WriteFilteredReport

SpecFilters == InitFilters /\ [][NextFilters]_vars

\* C30: the Final Report a run has written holds only records extracted
\* under the period and the document type of that run.
C30_ReportHoldsOnlyItsFilter ==
    (flpc = "idle" /\ fl_result_path # <<>>) =>
        \A i \in DOMAIN fl_reports[fl_result_path] :
            LET f == fl_reports[fl_result_path][i].filter
            IN  /\ ReportPath(f).period = ReportPath(fl_filter).period
                /\ f.ECF_TIPO = fl_filter.ECF_TIPO

====
